---- MODULE Spec2Model ----
(***************************************************************************)
(* A model of prfect's prompt pipeline: template resolution                *)
(* (TemplateLoader), diff bounding (GitAnalyzer), prompt composition and   *)
(* response post-processing (OllamaClient, OutputProcessor) and the part   *)
(* of PRGenerator that chains them.                                        *)
(*                                                                         *)
(* Text is a sequence of one-character strings.  A directory is named by   *)
(* the number of parent hops that separate it from the current working     *)
(* directory: 0 is process.cwd(), cwdDepth is the filesystem root.         *)
(***************************************************************************)
EXTENDS Integers, Sequences, FiniteSets, TLC

VARIABLES
    pc,         \* position of the operation under study
    cwdDepth,   \* parent hops from process.cwd() to the filesystem root
    gitDirs,    \* the directories that contain a .git entry
    files,      \* the template files of the filesystem, by <<directory, name>>
    config,     \* TemplateConfig handed to loadTemplate
    loaded,     \* outcome of loadTemplate
    rootResult, \* outcome of findRepositoryRoot
    tplSource,  \* the template handed to validateTemplate: padding and tokens
    validation, \* outcome of validateTemplate
    gitRuns,    \* what each git command of getCommitsInfo prints, or that it fails
    commitInfo, \* outcome of getCommitsInfo
    response,   \* the text the backend returned
    showThinking, \* the showThinking flag handed to processResponse
    processed,  \* outcome of processResponse
    genArgs,    \* arguments of PRGenerator.generatePRMessage
    logs,       \* what generatePRMessage has logged
    request,    \* the request handed to OllamaClient.generate
    genResult,  \* outcome of generatePRMessage
    tags,       \* outcome of hasThinkingTags, extractThinkingContent, countThinkingTags
    prMessage,  \* the message handed to extractTitleAndBody
    titleBody,  \* outcome of extractTitleAndBody
    limiting,   \* limitLines: content, maxLines and the results of its calls
    promptArgs, \* arguments of a prompt composition
    prompt,     \* outcome of generatePromptWithTemplate
    runOpts,    \* options of PRGenerator.run
    repo,       \* what git answers about the repository and its branches
    netLog,     \* the requests issued to the backend, in order
    output,     \* what run has written with console.log itself
    written,    \* the files run has written
    asked,      \* how many times the user has been prompted
    answers,    \* what the user has answered, in order
    client,     \* the OllamaClient calls made on their own, with their outcomes
    runResult   \* outcome of run

fsVars == <<cwdDepth, gitDirs, files>>
loadVars == <<config, loaded, rootResult>>
validateVars == <<tplSource, validation>>
gitVars == <<gitRuns, commitInfo>>
stripVars == <<response, showThinking, processed>>
genVars == <<genArgs, logs, request, genResult>>
promptVars == <<promptArgs, prompt>>
runVars == <<runOpts, repo, netLog, output, written, asked, answers, client, runResult>>
utilVars == <<tags, prMessage, titleBody, limiting>>

vars == <<pc, fsVars, loadVars, validateVars, gitVars, stripVars, genVars, utilVars,
          promptVars, runVars>>

(***************************************************************************)
(* Bounds of the model.                                                    *)
(***************************************************************************)
MaxDepth == 11          \* deepest working directory of the root-discovery runs
MaxGitDirs == 2         \* most .git entries on the way to the filesystem root
MaxTplDepth == 1        \* deepest working directory of the template runs
MaxPresent == 2         \* most candidate template files present at once

(***************************************************************************)
(* Text helpers: String.prototype.trim, includes, toLowerCase.             *)
(***************************************************************************)
Min(S) == CHOOSE x \in S : \A y \in S : x <= y

IsSpace(c) == c \in {" ", "\n", "\t"}

\* Index of the first / last character that is not whitespace, if any.
FirstNonSpace(t) ==
    CHOOSE i \in 1..Len(t) : ~IsSpace(t[i]) /\ \A j \in 1..(i - 1) : IsSpace(t[j])
LastNonSpace(t) ==
    CHOOSE i \in 1..Len(t) : ~IsSpace(t[i]) /\ \A j \in (i + 1)..Len(t) : IsSpace(t[j])

Blank(t) == \A i \in 1..Len(t) : IsSpace(t[i])

TrimStart(t) == IF Blank(t) THEN << >> ELSE SubSeq(t, FirstNonSpace(t), Len(t))
TrimEnd(t) == IF Blank(t) THEN << >> ELSE SubSeq(t, 1, LastNonSpace(t))

Trim(t) == TrimEnd(TrimStart(t))

Includes(t, k) ==
    \E i \in 1..(Len(t) - Len(k) + 1) : \A j \in 1..Len(k) : t[i + j - 1] = k[j]

UpperCase == <<"A", "B", "C", "D", "E", "F", "G", "H", "I", "J", "K", "L", "M",
               "N", "O", "P", "Q", "R", "S", "T", "U", "V", "W", "X", "Y", "Z">>
LowerCase == <<"a", "b", "c", "d", "e", "f", "g", "h", "i", "j", "k", "l", "m",
               "n", "o", "p", "q", "r", "s", "t", "u", "v", "w", "x", "y", "z">>

UpperSet == {UpperCase[i] : i \in 1..Len(UpperCase)}
LowerOf == [u \in UpperSet |-> LowerCase[CHOOSE i \in 1..Len(UpperCase) : UpperCase[i] = u]]

LowerChar(c) == IF c \in UpperSet THEN LowerOf[c] ELSE c

toLowerCase(t) == [i \in 1..Len(t) |-> LowerChar(t[i])]

RECURSIVE Flatten(_)
\* The concatenation of a sequence of texts, by halves.
Flatten(parts) ==
    IF parts = << >> THEN << >>
    ELSE IF Len(parts) = 1 THEN parts[1]
    ELSE LET mid == Len(parts) \div 2 IN
         Flatten(SubSeq(parts, 1, mid)) \o Flatten(SubSeq(parts, mid + 1, Len(parts)))

\* Every sequence of at most n elements of S.
SeqsUpTo(S, n) == UNION {[1..k -> S] : k \in 0..n}

(***************************************************************************)
(* TemplateLoader: the filesystem it reads.                                *)
(***************************************************************************)
DEFAULT_TEMPLATE_PATHS ==
    << ".github/pull_request_template.md",
       ".github/PULL_REQUEST_TEMPLATE.md",
       "docs/pull_request_template.md",
       ".github/PULL_REQUEST_TEMPLATE/pull_request_template.md" >>

CustomName == "custom/template.md"

FileNames == {DEFAULT_TEMPLATE_PATHS[i] : i \in 1..Len(DEFAULT_TEMPLATE_PATHS)} \cup {CustomName}

Absent == [exists |-> FALSE, readable |-> FALSE, text |-> << >>]
Directory == [exists |-> TRUE, readable |-> FALSE, text |-> << >>]

\* join(dir, name): the entry a path names.  join(dir, "") is dir itself.
FileAt(dir, name) ==
    IF name = "" THEN Directory
    ELSE IF <<dir, name>> \in DOMAIN files THEN files[<<dir, name>>]
    ELSE Absent

existsSync(dir, name) == FileAt(dir, name).exists

\* readFileSync: the text, or a thrown error (ok = FALSE).
readFileSync(dir, name) ==
    LET f == FileAt(dir, name) IN
    IF f.exists /\ f.readable THEN [ok |-> TRUE, text |-> f.text]
    ELSE [ok |-> FALSE, text |-> << >>]

\* dirname(path): the parent directory; the filesystem root is its own parent.
dirname(dir) == IF dir >= cwdDepth THEN dir ELSE dir + 1

(***************************************************************************)
(* TemplateLoader.findRepositoryRoot                                       *)
(***************************************************************************)
ElevenLevels == 10 + 1

MaxWalkLevels == 10

NoRoot(examined) == [found |-> FALSE, root |-> 0, examined |-> examined]

\* One turn of the for loop: currentPath and the loop counter i.
RECURSIVE RootWalk(_, _)
RootWalk(currentPath, i) ==
    IF ~(i < MaxWalkLevels) THEN NoRoot(i)
    ELSE IF currentPath \in gitDirs
         THEN [found |-> TRUE, root |-> currentPath, examined |-> i + 1]
    ELSE IF dirname(currentPath) = currentPath THEN NoRoot(i + 1)
    ELSE RootWalk(dirname(currentPath), i + 1)

findRepositoryRoot(startPath) == RootWalk(startPath, 0)

DefaultTemplate ==
    <<"#","#"," ","S","u","m","m","a","r","y","\n">>
    \o <<"[","B","r","i","e","f"," ","d","e","s","c","r","i","p","t","i","o","n"," ","o","f"," ","w","h","a","t"," ","t","h","i","s"," ","P","R"," ","a","c","c","o","m","p","l","i","s","h","e","s","]","\n">>
    \o <<"\n">>
    \o <<"#","#"," ","T","y","p","e"," ","o","f"," ","C","h","a","n","g","e","\n">>
    \o <<"-"," ","["," ","]"," ","B","u","g"," ","f","i","x"," ","(","n","o","n","-","b","r","e","a","k","i","n","g"," ","c","h","a","n","g","e"," ","w","h","i","c","h"," ","f","i","x","e","s"," ","a","n"," ","i","s","s","u","e",")","\n">>
    \o <<"-"," ","["," ","]"," ","N","e","w"," ","f","e","a","t","u","r","e"," ","(","n","o","n","-","b","r","e","a","k","i","n","g"," ","c","h","a","n","g","e"," ","w","h","i","c","h"," ","a","d","d","s"," ","f","u","n","c","t","i","o","n","a","l","i","t","y",")","\n">>
    \o <<"-"," ","["," ","]"," ","B","r","e","a","k","i","n","g"," ","c","h","a","n","g","e"," ","(","f","i","x"," ","o","r"," ","f","e","a","t","u","r","e"," ","t","h","a","t"," ","w","o","u","l","d"," ","c","a","u","s","e"," ","e","x","i","s","t","i","n","g"," ","f","u","n","c","t","i","o","n","a","l","i","t","y"," ","t","o"," ","n","o","t"," ","w","o","r","k"," ","a","s"," ","e","x","p","e","c","t","e","d",")","\n">>
    \o <<"-"," ","["," ","]"," ","D","o","c","u","m","e","n","t","a","t","i","o","n"," ","u","p","d","a","t","e","\n">>
    \o <<"-"," ","["," ","]"," ","C","o","n","f","i","g","u","r","a","t","i","o","n"," ","c","h","a","n","g","e","\n">>
    \o <<"-"," ","["," ","]"," ","T","e","s","t"," ","i","m","p","r","o","v","e","m","e","n","t","\n">>
    \o <<"-"," ","["," ","]"," ","C","o","d","e"," ","r","e","f","a","c","t","o","r","i","n","g","\n">>
    \o <<"\n">>
    \o <<"#","#"," ","O","v","e","r","v","i","e","w","\n">>
    \o <<"[","A"," ","b","r","i","e","f"," ","1","-","3"," ","s","e","n","t","e","n","c","e"," ","s","y","n","o","p","s","i","s"," ","o","f"," ","t","h","e"," ","w","o","r","k","]","\n">>
    \o <<"\n">>
    \o <<"#","#"," ","K","e","y"," ","C","h","a","n","g","e","s","\n">>
    \o <<"[","M","a","x","i","m","u","m"," ","5"," ","b","u","l","l","e","t"," ","p","o","i","n","t","s"," ","o","f"," ","t","h","e"," ","m","o","s","t"," ","i","m","p","o","r","t","a","n","t"," ","c","h","a","n","g","e","s","]","\n">>
    \o <<"-"," ","\n">>
    \o <<"-"," ","\n">>
    \o <<"-"," ","\n">>
    \o <<"\n">>
    \o <<"#","#"," ","H","o","w"," ","h","a","s"," ","t","h","i","s"," ","b","e","e","n"," ","t","e","s","t","e","d","?","\n">>
    \o <<"-"," ","["," ","]"," ","U","n","i","t"," ","t","e","s","t","s"," ","p","a","s","s","\n">>
    \o <<"-"," ","["," ","]"," ","M","a","n","u","a","l"," ","t","e","s","t","i","n","g"," ","c","o","m","p","l","e","t","e","d","\n">>
    \o <<"-"," ","["," ","]"," ","E","d","g","e"," ","c","a","s","e","s"," ","c","o","n","s","i","d","e","r","e","d","\n">>
    \o <<"\n">>
    \o <<"#","#"," ","B","r","e","a","k","i","n","g"," ","C","h","a","n","g","e","s","\n">>
    \o <<"[","O","n","l","y"," ","i","n","c","l","u","d","e"," ","i","f"," ","t","h","e","r","e"," ","a","r","e"," ","b","r","e","a","k","i","n","g"," ","c","h","a","n","g","e","s","]","\n">>
    \o <<"\n">>
    \o <<"#","#"," ","T","e","s","t","i","n","g","\n">>
    \o <<"[","I","n","c","l","u","d","e"," ","i","f"," ","a","p","p","l","i","c","a","b","l","e",","," ","d","e","s","c","r","i","b","e"," ","h","o","w"," ","t","h","e"," ","c","h","a","n","g","e","s"," ","w","e","r","e"," ","t","e","s","t","e","d",","," ","a","n","y"," ","n","e","w"," ","t","e","s","t","s"," ","a","d","d","e","d",","," ","e","t","c",".","]">>

(***************************************************************************)
(* TemplateLoader.loadTemplate and what it calls.  A result carries the    *)
(* text returned (ok) or the fact that an Error was thrown (~ok), and      *)
(* fsCalls, the number of existsSync / readFileSync calls made.            *)
(***************************************************************************)
Returned(text, calls) == [ok |-> TRUE, text |-> text, fsCalls |-> calls]
Thrown(calls) == [ok |-> FALSE, text |-> << >>, fsCalls |-> calls]

\* A JavaScript string used as a condition: true unless it is undefined or "".
\* A relative path is its name; an absolute path starts with "/".
TruthyPath(p) == p.given /\ (p.abs \/ p.name # "")
TruthyText(t) == t.given /\ t.text # << >>

\* [dir, name, fsCalls]: the entry the path names.
resolveTemplatePath(templatePath) ==
    IF templatePath.abs
    THEN [dir |-> templatePath.dir, name |-> templatePath.name, fsCalls |-> 0]
    ELSE LET repoRoot == findRepositoryRoot(0) IN
         IF repoRoot.found
         THEN [dir |-> repoRoot.root, name |-> templatePath.name,
               fsCalls |-> repoRoot.examined]
         ELSE [dir |-> 0, name |-> templatePath.name, fsCalls |-> repoRoot.examined]

\* loadFromPath that falls back to the default text instead of throwing.
loadFromPathLenient(templatePath) ==
    LET absolutePath == resolveTemplatePath(templatePath)
        content == readFileSync(absolutePath.dir, absolutePath.name) IN
    IF content.ok THEN Returned(content.text, absolutePath.fsCalls + 2)
    ELSE Returned(DefaultTemplate, absolutePath.fsCalls + 2)

loadFromPath(templatePath) ==
    LET absolutePath == resolveTemplatePath(templatePath) IN
    IF ~existsSync(absolutePath.dir, absolutePath.name)
    THEN Thrown(absolutePath.fsCalls + 1)
    ELSE LET content == readFileSync(absolutePath.dir, absolutePath.name) IN
         IF content.ok THEN Returned(content.text, absolutePath.fsCalls + 2)
         ELSE Thrown(absolutePath.fsCalls + 2)

\* The for loop over DEFAULT_TEMPLATE_PATHS, from candidate k on.
\* [isNull, text, fsCalls].
RECURSIVE CandidateScan(_, _, _)
CandidateScan(repoRoot, k, calls) ==
    IF k > Len(DEFAULT_TEMPLATE_PATHS) THEN [isNull |-> TRUE, text |-> << >>, fsCalls |-> calls]
    ELSE IF existsSync(repoRoot, DEFAULT_TEMPLATE_PATHS[k])
         THEN LET content == readFileSync(repoRoot, DEFAULT_TEMPLATE_PATHS[k]) IN
              IF content.ok
              THEN [isNull |-> FALSE, text |-> content.text, fsCalls |-> calls + 2]
              ELSE CandidateScan(repoRoot, k + 1, calls + 2)
    ELSE CandidateScan(repoRoot, k + 1, calls + 1)

findGitHubTemplate ==
    LET repoRoot == findRepositoryRoot(0) IN
    IF ~repoRoot.found
    THEN [isNull |-> TRUE, text |-> << >>, fsCalls |-> repoRoot.examined]
    ELSE CandidateScan(repoRoot.root, 1, repoRoot.examined)

getDefaultTemplate == DefaultTemplate

loadTemplate(cfg) ==
    IF TruthyPath(cfg.templatePath) THEN loadFromPath(cfg.templatePath)
    ELSE IF TruthyText(cfg.customTemplate) THEN Returned(cfg.customTemplate.text, 0)
    ELSE LET foundTemplate == findGitHubTemplate IN
         IF ~foundTemplate.isNull /\ foundTemplate.text # << >>
         THEN Returned(foundTemplate.text, foundTemplate.fsCalls)
         ELSE Returned(getDefaultTemplate, foundTemplate.fsCalls)

(***************************************************************************)
(* TemplateLoader.validateTemplate                                         *)
(***************************************************************************)
MaxTemplateLength == 10000

IssueEmpty == "Template is empty"
IssueTooLong == "Template is too long (max 10,000 characters)"
IssueNoSection ==
    "Template should include common sections like Summary, Overview, or Changes"

commonSections ==
    << <<"s", "u", "m", "m", "a", "r", "y">>,
       <<"o", "v", "e", "r", "v", "i", "e", "w">>,
       <<"c", "h", "a", "n", "g", "e", "s">> >>

\* validateTemplate with the checks chained by else: only the first issue.
validateTemplateFirstOnly(template) ==
    LET lower == toLowerCase(template)
        hasSection == \E k \in 1..Len(commonSections) :
                          Includes(lower, commonSections[k])
        issues == IF Len(Trim(template)) = 0 THEN <<IssueEmpty>>
                  ELSE IF Len(template) > MaxTemplateLength THEN <<IssueTooLong>>
                  ELSE IF ~hasSection THEN <<IssueNoSection>>
                  ELSE << >>
    IN [valid |-> Len(issues) = 0, issues |-> issues]

validateTemplate(template) ==
    LET lower == toLowerCase(template)
        hasSection == \E k \in 1..Len(commonSections) :
                          Includes(lower, commonSections[k])
        issues == (IF Len(template) = 0 \/ Len(Trim(template)) = 0
                   THEN <<IssueEmpty>> ELSE << >>)
                  \o (IF Len(template) > MaxTemplateLength
                      THEN <<IssueTooLong>> ELSE << >>)
                  \o (IF ~hasSection THEN <<IssueNoSection>> ELSE << >>)
    IN [valid |-> Len(issues) = 0, issues |-> issues]

NoSource == [padLen |-> 0, padChar |-> " ", tokens |-> << >>]
NotValidated == [valid |-> FALSE, issues |-> << >>]

IdleValidate == /\ tplSource = NoSource
                /\ validation = NotValidated

(***************************************************************************)
(* GitAnalyzer.getCommitsInfo.  A git command either prints a text or      *)
(* fails; runGitCommand trims what it prints, or throws.                   *)
(***************************************************************************)
RECURSIVE Split(_)
\* text.split("\n"), by halves: the line cut by the middle is glued back.
Split(t) ==
    IF Len(t) = 0 THEN << << >> >>
    ELSE IF Len(t) = 1 THEN (IF t[1] = "\n" THEN << << >>, << >> >> ELSE <<t>>)
    ELSE LET mid == Len(t) \div 2
             left == Split(SubSeq(t, 1, mid))
             right == Split(SubSeq(t, mid + 1, Len(t)))
         IN SubSeq(left, 1, Len(left) - 1)
                \o << left[Len(left)] \o right[1] >>
                \o Tail(right)

\* lines.slice(0, end) with one line too many.
sliceOneMore(lines, end) ==
    IF end + 1 >= Len(lines) THEN lines ELSE SubSeq(lines, 1, end + 1)

\* lines.slice(0, end): a negative end counts from the end of the array.
slice(lines, end) ==
    IF end >= Len(lines) THEN lines
    ELSE IF end >= 0 THEN SubSeq(lines, 1, end)
    ELSE IF Len(lines) + end > 0 THEN SubSeq(lines, 1, Len(lines) + end)
    ELSE << >>

RECURSIVE Join(_)
\* lines.join("\n"), by halves.
Join(lines) ==
    IF lines = << >> THEN << >>
    ELSE IF Len(lines) = 1 THEN lines[1]
    ELSE LET mid == Len(lines) \div 2 IN
         Join(SubSeq(lines, 1, mid)) \o <<"\n">> \o Join(SubSeq(lines, mid + 1, Len(lines)))

FileChangesLimit == 20
CodeSampleLimit == 100

NoCommitMessages == <<"N", "o", " ", "c", "o", "m", "m", "i", "t", " ", "m", "e", "s", "s", "a", "g", "e", "s", " ", "a", "v", "a", "i", "l", "a", "b", "l", "e">>
NoFileChanges == <<"N", "o", " ", "f", "i", "l", "e", " ", "c", "h", "a", "n", "g", "e", "s", " ", "d", "e", "t", "e", "c", "t", "e", "d">>
NoDiffStats == <<"N", "o", " ", "d", "i", "f", "f", " ", "s", "t", "a", "t", "i", "s", "t", "i", "c", "s", " ", "a", "v", "a", "i", "l", "a", "b", "l", "e">>
NoCodeChanges == <<"N", "o", " ", "c", "o", "d", "e", " ", "c", "h", "a", "n", "g", "e", "s", " ", "a", "v", "a", "i", "l", "a", "b", "l", "e">>

runGitCommand(command) ==
    IF command.ok THEN [ok |-> TRUE, out |-> Trim(command.out)]
    ELSE [ok |-> FALSE, out |-> << >>]

\* [thrown, messages, fileChanges, diffStats, codeSample]
getCommitsInfo(runs) ==
    LET mergeBase == runGitCommand(runs.mergeBase)
        log == runGitCommand(runs.log)
        changes == runGitCommand(runs.nameStatus)
        stat == runGitCommand(runs.stat)
        diff == runGitCommand(runs.diff)
    IN IF ~mergeBase.ok
       THEN [thrown |-> TRUE, messages |-> << >>, fileChanges |-> << >>,
             diffStats |-> << >>, codeSample |-> << >>]
       ELSE [thrown |-> FALSE,
             messages |-> IF log.ok THEN log.out ELSE NoCommitMessages,
             fileChanges |-> IF changes.ok
                             THEN Join(slice(Split(changes.out), FileChangesLimit))
                             ELSE NoFileChanges,
             diffStats |-> IF stat.ok THEN stat.out ELSE NoDiffStats,
             codeSample |-> IF diff.ok
                            THEN Join(slice(Split(diff.out), CodeSampleLimit))
                            ELSE NoCodeChanges]

Failed == [ok |-> FALSE, out |-> << >>]
Printed(text) == [ok |-> TRUE, out |-> text]

NoRuns == [mergeBase |-> Failed, log |-> Failed, nameStatus |-> Failed,
           stat |-> Failed, diff |-> Failed]
NoCommitInfo == [thrown |-> FALSE, messages |-> << >>, fileChanges |-> << >>,
                 diffStats |-> << >>, codeSample |-> << >>]

IdleGit == /\ gitRuns = NoRuns
           /\ commitInfo = NoCommitInfo

(***************************************************************************)
(* OutputProcessor.processResponse: response.replace(/<think>.*?<\/think>/ *)
(* gis, '').trim() unless showThinking.                                    *)
(***************************************************************************)
OpenMarker == <<"<", "t", "h", "i", "n", "k", ">">>
CloseMarker == <<"<", "/", "t", "h", "i", "n", "k", ">">>

\* The marker stands at index i of t, in any letter case (flag i).
MatchesAt(t, i, marker) ==
    /\ i + Len(marker) - 1 <= Len(t)
    /\ \A j \in 1..Len(marker) : LowerChar(t[i + j - 1]) = marker[j]

\* Where </think> can end a match that opened at index i (flag s: anything,
\* newlines too, may stand in between).
ClosesAfter(t, i) ==
    {c \in (i + Len(OpenMarker))..Len(t) : MatchesAt(t, c, CloseMarker)}

\* Where a match of the pattern can start, at or after index from.
MatchStarts(t, from) ==
    {i \in from..Len(t) : MatchesAt(t, i, OpenMarker) /\ ClosesAfter(t, i) # {}}

Max(S) == CHOOSE x \in S : \A y \in S : x >= y

RECURSIVE ReplaceGreedy(_, _)
\* The replacement with .* in place of .*?: a match runs to the last </think>.
ReplaceGreedy(t, from) ==
    IF MatchStarts(t, from) = {} THEN SubSeq(t, from, Len(t))
    ELSE LET i == Min(MatchStarts(t, from))
             c == Max(ClosesAfter(t, i))
         IN SubSeq(t, from, i - 1) \o ReplaceGreedy(t, c + Len(CloseMarker))

RECURSIVE ReplaceMatches(_, _)
\* replace(/<think>.*?<\/think>/gis, ''), from index from on (flag g): the
\* leftmost match, ended by the nearest </think>, is dropped, and the search
\* goes on behind it.
ReplaceMatches(t, from) ==
    IF MatchStarts(t, from) = {} THEN SubSeq(t, from, Len(t))
    ELSE LET i == Min(MatchStarts(t, from))
             c == Min(ClosesAfter(t, i))
         IN SubSeq(t, from, i - 1) \o ReplaceMatches(t, c + Len(CloseMarker))

RECURSIVE DropMarkers(_, _)
\* t without any <think> or </think> left in it, from index from on.
DropMarkers(t, from) ==
    IF from > Len(t) THEN << >>
    ELSE IF MatchesAt(t, from, OpenMarker) THEN DropMarkers(t, from + Len(OpenMarker))
    ELSE IF MatchesAt(t, from, CloseMarker) THEN DropMarkers(t, from + Len(CloseMarker))
    ELSE <<t[from]>> \o DropMarkers(t, from + 1)

\* processResponse that trims even when showThinking is set.
processResponseTrimsAlways(resp, show) ==
    IF show THEN Trim(resp) ELSE Trim(ReplaceMatches(resp, 1))

\* processResponse with a greedy pattern.
processResponseGreedy(resp, show) ==
    IF show THEN resp ELSE Trim(ReplaceGreedy(resp, 1))

\* processResponse that also drops the markers that are left over.
processResponseDropsMarkers(resp, show) ==
    IF show THEN resp ELSE Trim(DropMarkers(ReplaceMatches(resp, 1), 1))

\* processResponse with a pattern without the flag g: only the first match
\* is dropped.
processResponseFirstMatch(resp, show) ==
    IF show \/ MatchStarts(resp, 1) = {} THEN (IF show THEN resp ELSE Trim(resp))
    ELSE LET i == Min(MatchStarts(resp, 1))
             c == Min(ClosesAfter(resp, i))
         IN Trim(SubSeq(resp, 1, i - 1) \o SubSeq(resp, c + Len(CloseMarker), Len(resp)))

processResponse(resp, show) ==
    IF show THEN resp ELSE Trim(ReplaceMatches(resp, 1))

IdleStrip == /\ response = << >>
             /\ showThinking = FALSE
             /\ processed = << >>

(***************************************************************************)
(* TemplateLoader.generatePromptWithTemplate and the default prompt of     *)
(* OllamaClient.generatePRMessage.  A prompt is the sequence of its parts: *)
(* each literal stretch of the template string is one element, each        *)
(* interpolated text contributes its characters.                           *)
(***************************************************************************)
Preamble ==
    "You are a senior software engineer reviewing code changes for a pull request.\n\nBased on the following git information, generate a pull request description using the provided template structure:\n\n"
TemplateHeading == "TEMPLATE STRUCTURE TO FOLLOW:\n"
BranchHeading == "\n\nBRANCH INFO:\n- Source branch: "
TargetHeading == "\n- Target branch: "
MessagesHeading == "\n\nGIT ANALYSIS:\n=== COMMIT MESSAGES ===\n"
FileChangesHeading == "\n\n=== FILE CHANGES SUMMARY ===\n"
DiffStatsHeading == "\n\n=== DIFF STATISTICS ===\n"
CodeSampleHeading == "\n\n=== SAMPLE CODE CHANGES ===\n"
ContextHeading == "\n\nADDITIONAL CONTEXT:\n"
ContextClosing == "\n\nConsider this additional context when generating the PR description."
Instructions ==
    "\n\nINSTRUCTIONS:\n- Follow the template structure exactly\n- Replace placeholder text with actual content based on the git analysis\n- Fill in checkboxes appropriately based on the changes\n- Keep the tone professional but concise\n- Focus on the business value and technical changes\n- Maximum 1000 words total\n- Do not use placeholder text like \"[Description]\" - write the actual content"
NoEmojisInstruction == "\n- Do not use any emojis in the response"
GenerateNow == "\n\nGenerate the PR description now:"

DefaultPreamble ==
    "You are a senior software engineer reviewing code changes for a pull request. \n\nBased on the following git information, generate a clear and professional pull request description:"
DefaultStructure ==
    "\n\nPlease generate a PR description with the following structure:\n\n<pr_description_template>\n# [Write a clear, direct title here - no placeholder text, just the actual title]\n\n## Overview\nA brief 1-3 sentence synopsis of the work.\n\n## Summary\nWhat this PR does and why it's needed.\n\n## Key Changes\n- [Maximum 5 bullet points of the most important changes]\n\n## Breaking Changes\n[Only include if there are breaking changes]\n\n## Testing\n[Include if applicable, describe how the changes were tested, any new tests added, etc.]\n</pr_description_template>\n\nKeep the tone professional but concise. Focus on the business value and technical changes. Maximum 1000 words total. Do not use placeholder text like \"[Title]\" - write the actual content."
DefaultNoEmojis == " Do not use any emojis in the response."

\* An optional boolean used as a condition: true only when given and true.
TruthyFlagWhenGiven(flag) == flag.given

TruthyFlag(flag) == flag.given /\ flag.value

\* contextSection that does not look at the context.
contextSectionAlways(context) ==
    <<ContextHeading>> \o context.text \o <<ContextClosing>>

contextSection(context) ==
    IF TruthyText(context)
    THEN <<ContextHeading>> \o context.text \o <<ContextClosing>>
    ELSE << >>

\* The git fields when a heading is left out with its empty field.
GitAnalysisSkipsEmpty(info, sourceBranch, targetBranch, context) ==
    <<BranchHeading>> \o sourceBranch \o <<TargetHeading>> \o targetBranch
    \o (IF info.messages = << >> THEN << >> ELSE <<MessagesHeading>> \o info.messages)
    \o <<FileChangesHeading>> \o info.fileChanges
    \o <<DiffStatsHeading>> \o info.diffStats
    \o <<CodeSampleHeading>> \o info.codeSample \o contextSection(context)

\* From the branch names on, both prompts interpolate the same fields.
GitAnalysis(info, sourceBranch, targetBranch, context) ==
    <<BranchHeading>> \o sourceBranch \o <<TargetHeading>> \o targetBranch
    \o <<MessagesHeading>> \o info.messages
    \o <<FileChangesHeading>> \o info.fileChanges
    \o <<DiffStatsHeading>> \o info.diffStats
    \o <<CodeSampleHeading>> \o info.codeSample \o contextSection(context)

generatePromptWithTemplate(template, info, sourceBranch, targetBranch, options) ==
    <<Preamble, TemplateHeading>> \o template
    \o (GitAnalysis(info, sourceBranch, targetBranch, options.context)
        \o <<Instructions>>
        \o (IF TruthyFlag(options.noEmojis) THEN <<NoEmojisInstruction>> ELSE << >>)
        \o <<GenerateNow>>)

defaultPrompt(info, sourceBranch, targetBranch, options) ==
    <<DefaultPreamble>>
    \o GitAnalysis(info, sourceBranch, targetBranch, options.context)
    \o <<DefaultStructure>>
    \o (IF TruthyFlag(options.noEmojis) THEN <<DefaultNoEmojis>> ELSE << >>)

\* OllamaClient.generatePRMessage up to its call of generate: the request.
clientRequest(model, info, sourceBranch, targetBranch, options) ==
    [sent |-> TRUE,
     model |-> model,
     prompt |-> IF options.template # << >>
                THEN generatePromptWithTemplate(options.template, info, sourceBranch,
                                                targetBranch, options)
                ELSE defaultPrompt(info, sourceBranch, targetBranch, options)]

\* generate without the check of result.response.
generateAnyResult(reply) ==
    IF reply.kind = "timeout"
    THEN [ok |-> FALSE, response |-> << >>,
          message |-> <<"Request timed out. The model might be taking too long to respond.">>]
    ELSE IF reply.kind = "network"
    THEN [ok |-> FALSE, response |-> << >>,
          message |-> <<"Failed to generate response: ", "fetch failed">>]
    ELSE IF reply.kind = "status"
    THEN [ok |-> FALSE, response |-> << >>,
          message |-> <<"Failed to generate response: ", "HTTP 500: Internal Server Error">>]
    ELSE [ok |-> TRUE, response |-> reply.response, message |-> << >>]

\* OllamaClient.generate, given how the backend answers: the response text,
\* or the message of the error thrown.
generate(reply) ==
    IF reply.kind = "timeout"
    THEN [ok |-> FALSE, response |-> << >>,
          message |-> <<"Request timed out. The model might be taking too long to respond.">>]
    ELSE IF reply.kind = "network"
    THEN [ok |-> FALSE, response |-> << >>,
          message |-> <<"Failed to generate response: ", "fetch failed">>]
    ELSE IF reply.kind = "status"
    THEN [ok |-> FALSE, response |-> << >>,
          message |-> <<"Failed to generate response: ", "HTTP 500: Internal Server Error">>]
    ELSE IF reply.kind = "nofield" \/ reply.response = << >>
    THEN [ok |-> FALSE, response |-> << >>,
          message |-> <<"Failed to generate response: ", "No response field in Ollama output">>]
    ELSE [ok |-> TRUE, response |-> reply.response, message |-> << >>]

(***************************************************************************)
(* GitAnalyzer.isGitRepo, getCurrentBranch, detectDefaultBranch and        *)
(* branchExists.  repo holds what the git commands behind them answer:     *)
(* gitDir (rev-parse --git-dir succeeds), current (branch --show-current), *)
(* remoteHead (symbolic-ref refs/remotes/origin/HEAD) and refs, the refs   *)
(* show-ref --verify finds, each <<"heads" or "remotes", branch>>.         *)
(***************************************************************************)
NullBranch == [isNull |-> TRUE, name |-> << >>]
Branch(name) == [isNull |-> FALSE, name |-> name]

RemotePrefix == <<"r", "e", "f", "s", "/", "r", "e", "m", "o", "t", "e", "s", "/", "o", "r", "i", "g", "i", "n", "/">>

commonBranches == <<<<"m", "a", "i", "n">>, <<"m", "a", "s", "t", "e", "r">>, <<"d", "e", "v", "e", "l", "o", "p">>, <<"d", "e", "v">>>>

isGitRepo == repo.gitDir

getCurrentBranch ==
    IF runGitCommand(repo.current).ok THEN Branch(runGitCommand(repo.current).out)
    ELSE NullBranch

\* Where pattern first occurs in t; 0 when it does not.
IndexOfText(t, pattern) ==
    LET at == {i \in 1..(Len(t) - Len(pattern) + 1) :
                  \A j \in 1..Len(pattern) : t[i + j - 1] = pattern[j]}
    IN IF at = {} THEN 0 ELSE Min(at)

\* t.replace(pattern, ""): the first occurrence is removed.
RemoveFirst(t, pattern) ==
    IF IndexOfText(t, pattern) = 0 THEN t
    ELSE SubSeq(t, 1, IndexOfText(t, pattern) - 1)
         \o SubSeq(t, IndexOfText(t, pattern) + Len(pattern), Len(t))

branchExists(branch) ==
    <<"heads", branch>> \in repo.refs \/ <<"remotes", branch>> \in repo.refs

detectDefaultBranch ==
    LET remoteDefault == runGitCommand(repo.remoteHead)
        known == {k \in 1..Len(commonBranches) : branchExists(commonBranches[k])}
    IN IF remoteDefault.ok /\ remoteDefault.out # << >>
       THEN Branch(RemoveFirst(remoteDefault.out, RemotePrefix))
       ELSE IF known # {} THEN Branch(commonBranches[Min(known)])
       ELSE NullBranch

(***************************************************************************)
(* OllamaClient.getAvailableModels, given how the backend answers: the     *)
(* model names, or the message of the error thrown.                        *)
(***************************************************************************)
Host == "http://localhost:11434"

getAvailableModels(reply) ==
    IF reply.kind = "timeout"
    THEN [ok |-> FALSE, names |-> << >>, message |-> <<"Connection to Ollama timed out">>]
    ELSE IF reply.kind = "network"
    THEN [ok |-> FALSE, names |-> << >>,
          message |-> <<"Failed to connect to Ollama: ", "fetch failed">>]
    ELSE IF reply.kind = "status"
    THEN [ok |-> FALSE, names |-> << >>,
          message |-> <<"Failed to connect to Ollama: ", "HTTP 500: Internal Server Error">>]
    ELSE IF reply.kind = "nomodels"
    THEN [ok |-> TRUE, names |-> << >>, message |-> << >>]
    ELSE [ok |-> TRUE, names |-> reply.names, message |-> << >>]

includes(names, name) == \E k \in 1..Len(names) : names[k] = name

(***************************************************************************)
(* PRGenerator.generatePRMessage                                           *)
(***************************************************************************)
NotGivenPath == [given |-> FALSE, abs |-> FALSE, dir |-> 0, name |-> ""]
NotGivenText == [given |-> FALSE, text |-> << >>]
Dummy == <<"d", "u", "m", "m", "y">>

\* TemplateLoader.loadTemplate({}) !== TemplateLoader.loadTemplate({ customTemplate: "dummy" })
hasGitHubTemplate ==
    loadTemplate([templatePath |-> NotGivenPath, customTemplate |-> NotGivenText]).text
        # loadTemplate([templatePath |-> NotGivenPath,
                        customTemplate |-> [given |-> TRUE, text |-> Dummy]]).text

\* What is logged before the template is loaded, and after.
modelLog(args) ==
    IF ~args.silent
    THEN << <<"[INFO]", "Generating PR message using model: ", args.model>> >>
    ELSE << >>

templateLog(args) ==
    IF ~args.silent /\ TruthyPath(args.templatePath)
    THEN << <<"[INFO]", "Using custom template: ", args.templatePath.name>> >>
    ELSE IF ~args.silent
    THEN IF hasGitHubTemplate THEN << <<"[INFO]", "Using GitHub PR template">> >>
         ELSE << <<"[INFO]", "Using default template">> >>
    ELSE << >>

NoArgs == [model |-> "", sourceBranch |-> << >>, targetBranch |-> << >>,
           noEmojis |-> FALSE, showThinking |-> FALSE, silent |-> FALSE,
           templatePath |-> NotGivenPath, context |-> NotGivenText]
NoRequest == [sent |-> FALSE, model |-> "", prompt |-> << >>]
NoResult == [status |-> "pending", text |-> << >>, message |-> << >>]

GenReturned(text) == [status |-> "returned", text |-> text, message |-> << >>]
GenThrown(message) ==
    [status |-> "thrown", text |-> << >>,
     message |-> <<"Failed to generate PR message: ">> \o message]

\* generatePRMessage up to the await of the backend call: what it logs, the
\* request it hands to generate, and the error it throws when the template
\* cannot be loaded.
startGeneration(args, info) ==
    LET template == loadTemplate([templatePath |-> args.templatePath,
                                  customTemplate |-> NotGivenText])
    IN IF ~template.ok
       THEN [ok |-> FALSE,
             logs |-> modelLog(args),
             request |-> NoRequest,
             result |-> GenThrown(<<"Failed to load template from ",
                                    args.templatePath.name>>)]
       ELSE [ok |-> TRUE,
             logs |-> modelLog(args) \o templateLog(args),
             request |-> clientRequest(args.model, info,
                                       args.sourceBranch, args.targetBranch,
                                       [noEmojis |-> [given |-> TRUE,
                                                      value |-> args.noEmojis],
                                        template |-> template.text,
                                        context |-> args.context]),
             result |-> NoResult]

NoPromptArgs == [template |-> << >>, info |-> NoCommitInfo, sourceBranch |-> << >>,
                 targetBranch |-> << >>,
                 options |-> [noEmojis |-> [given |-> FALSE, value |-> FALSE],
                              context |-> NotGivenText]]

IdlePrompt == /\ promptArgs = NoPromptArgs
              /\ prompt = << >>

IdleGen == /\ genArgs = NoArgs
           /\ logs = << >>
           /\ request = NoRequest
           /\ genResult = NoResult

(***************************************************************************)
(* PRGenerator.run: its options, after the defaults of the destructuring   *)
(* (model "qwen3:latest", save false, interactive true, the other flags    *)
(* false), and the state it starts from.                                   *)
(***************************************************************************)
NoRunOpts == [source |-> NotGivenText, target |-> NotGivenText, model |-> "qwen3:latest",
              save |-> FALSE, interactive |-> TRUE, noEmojis |-> FALSE,
              showThinking |-> FALSE, ci |-> FALSE, templatePath |-> NotGivenPath,
              context |-> NotGivenText]
NotRun == [status |-> "pending", step |-> "", text |-> << >>, message |-> << >>]
NoCalls == [listing |-> << >>, generation |-> << >>]
NoRepo == [gitDir |-> FALSE, current |-> Failed, remoteHead |-> Failed, refs |-> {}]

IdleRun == /\ runOpts = NoRunOpts
           /\ repo = NoRepo
           /\ netLog = << >>
           /\ output = << >>
           /\ written = << >>
           /\ asked = 0
           /\ answers = << >>
           /\ client = NoCalls
           /\ runResult = NotRun

(***************************************************************************)
(* OutputProcessor.hasThinkingTags, extractThinkingContent and             *)
(* countThinkingTags.                                                      *)
(***************************************************************************)
RECURSIVE MatchGreedy(_, _)
\* content.match with .* in place of .*?.
MatchGreedy(t, from) ==
    IF MatchStarts(t, from) = {} THEN << >>
    ELSE LET i == Min(MatchStarts(t, from))
             c == Max(ClosesAfter(t, i))
         IN <<SubSeq(t, i, c + Len(CloseMarker) - 1)>>
            \o MatchGreedy(t, c + Len(CloseMarker))

RECURSIVE Match(_, _)
\* content.match(/<think>.*?<\/think>/gis): the matched substrings in order,
\* from index from on.  No match (null) is the empty list: each caller turns
\* null into its empty answer.
Match(t, from) ==
    IF MatchStarts(t, from) = {} THEN << >>
    ELSE LET i == Min(MatchStarts(t, from))
             c == Min(ClosesAfter(t, i))
         IN <<SubSeq(t, i, c + Len(CloseMarker) - 1)>>
            \o Match(t, c + Len(CloseMarker))

hasThinkingTags(content) == MatchStarts(content, 1) # {}

extractThinkingContent(content) ==
    LET matches == Match(content, 1) IN
    [k \in 1..Len(matches) |-> Trim(DropMarkers(matches[k], 1))]

countThinkingTags(content) == Len(Match(content, 1))

NoTags == [has |-> FALSE, contents |-> << >>, count |-> 0]

(***************************************************************************)
(* OutputProcessor.extractTitleAndBody                                     *)
(***************************************************************************)
DefaultTitle == <<"A", "u", "t", "o", "-", "g", "e", "n", "e", "r", "a", "t", "e", "d", " ", "P", "R">>
DefaultBody == <<"N", "o", " ", "d", "e", "s", "c", "r", "i", "p", "t", "i", "o", "n", " ", "p", "r", "o", "v", "i", "d", "e", "d">>

TitlePrefixes ==
    <<<<"f", "e", "a", "t">>,
      <<"f", "i", "x">>,
      <<"d", "o", "c", "s">>,
      <<"s", "t", "y", "l", "e">>,
      <<"r", "e", "f", "a", "c", "t", "o", "r">>,
      <<"t", "e", "s", "t">>,
      <<"c", "h", "o", "r", "e">>>>

\* How many '#' the line starts with.
LeadingHashes(line) ==
    IF \A i \in 1..Len(line) : line[i] = "#" THEN Len(line)
    ELSE (CHOOSE i \in 1..Len(line) : line[i] # "#" /\ \A j \in 1..(i - 1) : line[j] = "#") - 1

\* line.replace(/^#+\s*/, '')
stripHeader(line) ==
    IF LeadingHashes(line) = 0 THEN line
    ELSE TrimStart(SubSeq(line, LeadingHashes(line) + 1, Len(line)))

\* Does the line start with this prefix and a colon, in any letter case?
StartsWithPrefix(line, prefix) ==
    /\ Len(line) >= Len(prefix) + 1
    /\ \A j \in 1..Len(prefix) : LowerChar(line[j]) = prefix[j]
    /\ line[Len(prefix) + 1] = ":"

\* line.replace(/^(feat|fix|docs|style|refactor|test|chore):\s*/i, '')
stripPrefix(line) ==
    IF \E k \in 1..Len(TitlePrefixes) : StartsWithPrefix(line, TitlePrefixes[k])
    THEN LET k == Min({k \in 1..Len(TitlePrefixes) : StartsWithPrefix(line, TitlePrefixes[k])})
         IN TrimStart(SubSeq(line, Len(TitlePrefixes[k]) + 2, Len(line)))
    ELSE line

\* The title of a line that keeps its '#' header.
titleOfLineKeepsHeader(line) == Trim(stripPrefix(line))

\* The title of a line that keeps a conventional-commit prefix.
titleOfLineKeepsPrefix(line) == Trim(stripHeader(line))

\* The title made of the (trimmed) first non-empty line.
titleOfLine(line) == Trim(stripPrefix(stripHeader(line)))

\* extractTitleAndBody without its two fallbacks.
extractTitleAndBodyNoDefaults(message) ==
    LET lines == Split(Trim(message))
        found == {i \in 1..Len(lines) : Trim(lines[i]) # << >>}
        title == IF found = {} THEN << >> ELSE titleOfLine(Trim(lines[Min(found)]))
        afterTitle == IF found = {} THEN 1 ELSE Min(found) + 1
        filled == {i \in afterTitle..Len(lines) : Trim(lines[i]) # << >>}
        bodyStartIndex == IF filled = {} THEN Len(lines) + 1 ELSE Min(filled)
        body == Trim(Join(SubSeq(lines, bodyStartIndex, Len(lines))))
    IN [title |-> title, body |-> body]

extractTitleAndBody(message) ==
    LET lines == Split(Trim(message))
        \* the for loop: the first line that is not empty once trimmed
        found == {i \in 1..Len(lines) : Trim(lines[i]) # << >>}
        title == IF found = {} THEN << >> ELSE titleOfLine(Trim(lines[Min(found)]))
        afterTitle == IF found = {} THEN 1 ELSE Min(found) + 1
        \* the while loop: skip the empty lines that follow
        filled == {i \in afterTitle..Len(lines) : Trim(lines[i]) # << >>}
        bodyStartIndex == IF filled = {} THEN Len(lines) + 1 ELSE Min(filled)
        body == Trim(Join(SubSeq(lines, bodyStartIndex, Len(lines))))
    IN [title |-> IF title # << >> THEN title ELSE DefaultTitle,
        body |-> IF body # << >> THEN body ELSE DefaultBody]

NoTitleBody == [title |-> << >>, body |-> << >>]

(***************************************************************************)
(* OutputProcessor.limitLines                                              *)
(***************************************************************************)
\* limitLines that keeps one line more.
limitLinesOneMore(content, maxLines) == Join(sliceOneMore(Split(content), maxLines))

limitLines(content, maxLines) == Join(slice(Split(content), maxLines))

NotLimiting == [content |-> << >>, maxLines |-> 0, results |-> << >>]

IdleUtil == /\ tags = NoTags
            /\ prMessage = << >>
            /\ titleBody = NoTitleBody
            /\ limiting = NotLimiting

(***************************************************************************)
(* Root discovery on its own: every working directory up to MaxDepth hops  *)
(* below the filesystem root, with up to MaxGitDirs .git entries above it. *)
(***************************************************************************)
NoFiles == [p \in {} |-> Absent]
NoConfig == [templatePath |-> [given |-> FALSE, abs |-> FALSE, dir |-> 0, name |-> ""],
             customTemplate |-> [given |-> FALSE, text |-> << >>]]
NotLoaded == [ok |-> FALSE, text |-> << >>, fsCalls |-> 0]

IdleFs == /\ cwdDepth = 0
          /\ gitDirs = {}
          /\ files = NoFiles

IdleLoad == /\ config = NoConfig
            /\ loaded = NotLoaded
            /\ rootResult = NoRoot(0)

InitRoot ==
    /\ pc = "start"
    /\ cwdDepth \in 0..MaxDepth
    /\ gitDirs \in {S \in SUBSET (0..cwdDepth) : Cardinality(S) <= MaxGitDirs}
    /\ files = NoFiles
    /\ config = NoConfig
    /\ loaded = NotLoaded
    /\ rootResult = NoRoot(0)
    /\ IdleValidate
    /\ IdleGit
    /\ IdleStrip
    /\ IdleGen
    /\ IdlePrompt
    /\ IdleRun
    /\ IdleUtil

FindRoot ==
    /\ pc = "start"
    /\ rootResult' = findRepositoryRoot(0)
    /\ pc' = "done"
    /\ UNCHANGED <<fsVars, config, loaded, validateVars, gitVars, stripVars, genVars, utilVars, promptVars,
                   runVars>>

NextRoot == FindRoot

SpecRoot == InitRoot /\ [][NextRoot]_vars

\* The nearest directory holding .git, counted in parent hops from the start.
NearestGit == Min(gitDirs)

\* C4 as stated: root discovery returns the nearest directory holding .git
\* whenever it is at most 10 parent hops above the start, returns no root
\* otherwise, and never examines more than 10 levels.
C4_TenHops ==
    pc = "done" =>
        /\ (gitDirs # {} /\ NearestGit <= 10) =>
               (rootResult.found /\ rootResult.root = NearestGit)
        /\ (gitDirs = {} \/ NearestGit > 10) => ~rootResult.found
        /\ rootResult.examined <= 10

\* C4 amended: root discovery examines the start directory and at most 9
\* ancestors (10 levels in all).  It returns the nearest directory holding
\* .git whenever that directory is at most 9 parent hops above the start and
\* returns no root otherwise (the filesystem root was examined without
\* success, or the 10 levels were used up).
C4_NineHops ==
    pc = "done" =>
        /\ (gitDirs # {} /\ NearestGit <= 9) =>
               (rootResult.found /\ rootResult.root = NearestGit)
        /\ (gitDirs = {} \/ NearestGit > 9) => ~rootResult.found
        /\ rootResult.examined <= 10
        /\ rootResult.examined <= cwdDepth + 1

\* C4 witness: the root sits exactly 9 hops up, below a second .git, and is found.
C4_Witness ==
    /\ pc = "done"
    /\ Cardinality(gitDirs) = 2
    /\ NearestGit = 9
    /\ rootResult.found
    /\ rootResult.root = 9
    /\ rootResult.examined = 10

(***************************************************************************)
(* Template resolution: working directories up to MaxTplDepth hops below   *)
(* the filesystem root, any .git entries above them, and one directory     *)
(* (popDir) that holds template files: the custom file in any state and up *)
(* to MaxPresent of the candidates.  A file is absent, present but         *)
(* unreadable, empty, or holds a text that names its place.                *)
(***************************************************************************)
Digits == <<"0", "1", "2", "3", "4", "5", "6", "7", "8", "9">>
AllNames == DEFAULT_TEMPLATE_PATHS \o <<CustomName>>
NameIndex(name) == CHOOSE i \in 1..Len(AllNames) : AllNames[i] = name

MarkedText(dir, name) == <<"t", Digits[dir + 1], Digits[NameIndex(name) + 1]>>
InlineText == <<"i", "n", "l">>

FileKinds == {"absent", "unreadable", "empty", "marked"}

FileOfKind(kind, dir, name) ==
    CASE kind = "absent" -> Absent
      [] kind = "unreadable" -> [exists |-> TRUE, readable |-> FALSE, text |-> << >>]
      [] kind = "empty" -> [exists |-> TRUE, readable |-> TRUE, text |-> << >>]
      [] kind = "marked" -> [exists |-> TRUE, readable |-> TRUE, text |-> MarkedText(dir, name)]

DirContents ==
    {dc \in [FileNames -> FileKinds] :
        Cardinality({n \in FileNames \ {CustomName} : dc[n] # "absent"}) <= MaxPresent}

FilesOf(popDir, dc) ==
    [p \in {popDir} \X FileNames |-> FileOfKind(dc[p[2]], p[1], p[2])]

TemplatePaths(depth) ==
    {[given |-> FALSE, abs |-> FALSE, dir |-> 0, name |-> ""],
     [given |-> TRUE, abs |-> FALSE, dir |-> 0, name |-> ""],
     [given |-> TRUE, abs |-> FALSE, dir |-> 0, name |-> CustomName]}
    \cup {[given |-> TRUE, abs |-> TRUE, dir |-> d, name |-> CustomName] : d \in 0..depth}

CustomTemplates ==
    {[given |-> FALSE, text |-> << >>],
     [given |-> TRUE, text |-> << >>],
     [given |-> TRUE, text |-> InlineText]}

InitTemplate ==
    /\ pc = "start"
    /\ cwdDepth \in 0..MaxTplDepth
    /\ gitDirs \in SUBSET (0..cwdDepth)
    /\ \E popDir \in 0..cwdDepth, dc \in DirContents : files = FilesOf(popDir, dc)
    /\ config \in [templatePath : TemplatePaths(cwdDepth), customTemplate : CustomTemplates]
    /\ loaded = NotLoaded
    /\ rootResult = NoRoot(0)
    /\ IdleValidate
    /\ IdleGit
    /\ IdleStrip
    /\ IdleGen
    /\ IdlePrompt
    /\ IdleRun
    /\ IdleUtil

LoadTemplate ==
    /\ pc = "start"
    /\ loaded' = loadTemplate(config)
    /\ pc' = "done"
    /\ UNCHANGED <<fsVars, config, rootResult, validateVars, gitVars, stripVars, genVars, utilVars, promptVars,
                   runVars>>

NextTemplate == LoadTemplate

SpecTemplate == InitTemplate /\ [][NextTemplate]_vars

(***************************************************************************)
(* What the claims about template resolution speak of, read off the        *)
(* filesystem alone.                                                       *)
(***************************************************************************)
HasRoot == gitDirs # {} /\ NearestGit <= 9
RepoRoot == NearestGit

IsReadableFile(dir, name) ==
    /\ name # ""
    /\ <<dir, name>> \in DOMAIN files
    /\ files[<<dir, name>>].exists
    /\ files[<<dir, name>>].readable

ReadableCandidates ==
    {k \in 1..Len(DEFAULT_TEMPLATE_PATHS) : IsReadableFile(RepoRoot, DEFAULT_TEMPLATE_PATHS[k])}

FirstCandidateText == files[<<RepoRoot, DEFAULT_TEMPLATE_PATHS[Min(ReadableCandidates)]>>].text

Discoverable == HasRoot /\ ReadableCandidates # {}

\* Where a given path points: as is when absolute, else under the repository
\* root, else under the working directory.
ExplicitDir(p) == IF p.abs THEN p.dir ELSE IF HasRoot THEN RepoRoot ELSE 0

NonEmptyPath(p) == p.given /\ (p.abs \/ p.name # "")
NonEmptyInline(t) == t.given /\ t.text # << >>

\* C1: resolution takes the explicit path if given, else the inline content
\* (verbatim, with no filesystem call), else the first discoverable
\* repository template, else the built-in default, which contains "Summary".
\* "Given" is read here as given and not the empty string.
C1_Priority ==
    pc = "done" =>
        IF NonEmptyPath(config.templatePath)
        THEN IsReadableFile(ExplicitDir(config.templatePath), config.templatePath.name) =>
                 /\ loaded.ok
                 /\ loaded.text =
                        files[<<ExplicitDir(config.templatePath), config.templatePath.name>>].text
        ELSE IF NonEmptyInline(config.customTemplate)
        THEN loaded = Returned(config.customTemplate.text, 0)
        ELSE IF Discoverable
        THEN loaded.ok /\ loaded.text = FirstCandidateText
        ELSE /\ loaded.ok
             /\ loaded.text = DefaultTemplate
             /\ Includes(loaded.text, <<"S", "u", "m", "m", "a", "r", "y">>)

C3_FirstReadable ==
    (pc = "done" /\ ~config.templatePath.given /\ ~config.customTemplate.given /\ HasRoot) =>
        /\ loaded.ok
        /\ loaded.text = IF ReadableCandidates # {} THEN FirstCandidateText ELSE DefaultTemplate

(***************************************************************************)
(* Validation: templates made of up to MaxVTokens words and blanks, and    *)
(* templates around the length cap: a run of one character, one short of   *)
(* MaxTemplateLength or just as long, followed by at most one token.       *)
(***************************************************************************)
MaxVTokens == 3

VTokens ==
    { <<"S", "u", "m", "m", "a", "r", "y">>,
      <<"O", "V", "E", "R", "V", "I", "E", "W">>,
      <<"c", "h", "a", "n">>,
      <<"g", "e", "s">>,
      <<"x">>, <<" ">>, <<"\n">> }

TemplateSources ==
    {[padLen |-> 0, padChar |-> " ", tokens |-> tk] : tk \in SeqsUpTo(VTokens, MaxVTokens)}
    \cup {[padLen |-> n, padChar |-> c, tokens |-> tk] :
              n \in (MaxTemplateLength - 1)..MaxTemplateLength,
              c \in {"a", " "},
              tk \in {<< >>} \cup {<<w>> : w \in VTokens}}

\* The text of a template source.
TemplateText(src) == [i \in 1..src.padLen |-> src.padChar] \o Flatten(src.tokens)

InitValidate ==
    /\ pc = "start"
    /\ tplSource \in TemplateSources
    /\ validation = NotValidated
    /\ IdleFs
    /\ IdleLoad
    /\ IdleGit
    /\ IdleStrip
    /\ IdleGen
    /\ IdlePrompt
    /\ IdleRun
    /\ IdleUtil

ValidateTemplate ==
    /\ pc = "start"
    /\ validation' = validateTemplate(TemplateText(tplSource))
    /\ pc' = "done"
    /\ UNCHANGED <<fsVars, loadVars, tplSource, gitVars, stripVars, genVars, utilVars, promptVars,
                   runVars>>

NextValidate == ValidateTemplate

SpecValidate == InitValidate /\ [][NextValidate]_vars

\* What C5 speaks of, read off the template text.
OnlyWhitespace(t) == \A i \in 1..Len(t) : IsSpace(t[i])

SameLetter(a, b) == LowerChar(a) = LowerChar(b)

MentionsSection(t) ==
    \E k \in 1..Len(commonSections) :
        \E i \in 1..(Len(t) - Len(commonSections[k]) + 1) :
            \A j \in 1..Len(commonSections[k]) : SameLetter(t[i + j - 1], commonSections[k][j])

\* C5: validateTemplate reports every applicable issue, in the order empty
\* (empty or whitespace only), too long (more than 10,000 characters), no
\* section (none of summary / overview / changes, in any letter case), and
\* valid is true exactly when no issue is reported.
C5_AllIssuesInOrder ==
    pc = "done" =>
        LET t == TemplateText(tplSource) IN
        /\ validation.issues =
               (IF OnlyWhitespace(t) THEN <<"Template is empty">> ELSE << >>)
               \o (IF Len(t) >= 10001
                   THEN <<"Template is too long (max 10,000 characters)">> ELSE << >>)
               \o (IF ~MentionsSection(t)
                   THEN <<"Template should include common sections like Summary, Overview, or Changes">>
                   ELSE << >>)
        /\ validation.valid <=> (validation.issues = << >>)

\* C5 witness: a whitespace-only template of more than 10,000 characters gets
\* all three issues.
C5_Witness ==
    /\ pc = "done"
    /\ Len(TemplateText(tplSource)) > 10000
    /\ Len(validation.issues) = 3
    /\ ~validation.valid

(***************************************************************************)
(* Diff collection: git prints nothing, a few lines, or a number of lines  *)
(* around the limit (up to MaxExtraLines more), each ended by a newline.   *)
(* The lines are all alike, numbered, or every other one is blank.         *)
(***************************************************************************)
MaxExtraLines == 2

LineCounts(limit) == (0..2) \cup ((limit - 1)..(limit + MaxExtraLines))

LinePatterns == {"same", "numbered", "gaps"}

PatternLine(pattern, i) ==
    CASE pattern = "same" -> <<"M">>
      [] pattern = "numbered" -> <<"f", Digits[(i % 10) + 1]>>
      [] pattern = "gaps" -> IF i % 2 = 0 THEN << >> ELSE <<"+", " ">>

\* What git prints for n lines: every line ends with a newline.
PrintedLines(pattern, n) ==
    Flatten([i \in 1..n |-> PatternLine(pattern, i) \o <<"\n">>])

Outputs(limit) ==
    {Failed} \cup {Printed(PrintedLines(p, n)) : p \in LinePatterns, n \in LineCounts(limit)}

InitGit ==
    /\ pc = "start"
    /\ \/ gitRuns = NoRuns
       \/ gitRuns \in [mergeBase : {Printed(<<"a", "1", "\n">>)},
                       log : {Failed, Printed(<< >>), Printed(<<"-", " ", "m", "\n">>)},
                       nameStatus : Outputs(FileChangesLimit),
                       stat : {Failed, Printed(<<" ", "1", " ", "+", "\n">>)},
                       diff : Outputs(CodeSampleLimit)]
    /\ commitInfo = NoCommitInfo
    /\ IdleFs
    /\ IdleLoad
    /\ IdleValidate
    /\ IdleStrip
    /\ IdleGen
    /\ IdlePrompt
    /\ IdleRun
    /\ IdleUtil

GetCommitsInfo ==
    /\ pc = "start"
    /\ commitInfo' = getCommitsInfo(gitRuns)
    /\ pc' = "done"
    /\ UNCHANGED <<fsVars, loadVars, validateVars, gitRuns, stripVars, genVars, utilVars, promptVars,
                   runVars>>

NextGit == GetCommitsInfo

SpecGit == InitGit /\ [][NextGit]_vars

\* What C7 speaks of: lines are counted by their separators.
LineCount(t) == 1 + Cardinality({i \in 1..Len(t) : t[i] = "\n"})

IsPrefix(a, b) == Len(a) <= Len(b) /\ \A i \in 1..Len(a) : a[i] = b[i]

\* short is the first lines of full, at most limit of them.
FirstLinesOf(short, full, limit) ==
    /\ LineCount(short) <= limit
    /\ IsPrefix(short, full)
    /\ \/ short = full
       \/ LineCount(short) = limit /\ full[Len(short) + 1] = "\n"

\* C7: whatever git prints, the DiffSummary of getCommitsInfo has at most 20
\* lines of fileChanges and at most 100 lines of codeSample, each the first
\* lines of what the collector returned for that command (runGitCommand
\* returns the command's output without surrounding whitespace).
C7_BoundedFields ==
    (pc = "done" /\ ~commitInfo.thrown) =>
        /\ LineCount(commitInfo.fileChanges) <= 20
        /\ LineCount(commitInfo.codeSample) <= 100
        /\ gitRuns.nameStatus.ok =>
               FirstLinesOf(commitInfo.fileChanges, Trim(gitRuns.nameStatus.out), 20)
        /\ gitRuns.diff.ok =>
               FirstLinesOf(commitInfo.codeSample, Trim(gitRuns.diff.out), 100)

\* C7 witness: git printed more than 20 and more than 100 lines and both
\* fields were cut to exactly their limit.
C7_Witness ==
    /\ pc = "done"
    /\ ~commitInfo.thrown
    /\ gitRuns.nameStatus.ok /\ LineCount(Trim(gitRuns.nameStatus.out)) > 20
    /\ gitRuns.diff.ok /\ LineCount(Trim(gitRuns.diff.out)) > 100
    /\ LineCount(commitInfo.fileChanges) = 20
    /\ LineCount(commitInfo.codeSample) = 100

(***************************************************************************)
(* Response post-processing: responses of up to MaxRTokens tokens, each a  *)
(* marker, a whole pair in mixed letter case around a newline, a marker    *)
(* cut short, a letter, a blank or a newline.                              *)
(***************************************************************************)
MaxRTokens == 4

RTokens ==
    { <<"<", "t", "h", "i", "n", "k", ">">>,
      <<"<", "T", "H", "I", "N", "K", ">">>,
      <<"<", "/", "t", "h", "i", "n", "k", ">">>,
      <<"<", "T", "h", "i", "n", "k", ">", "r", "\n", "<", "/", "T", "H", "I", "N", "K", ">">>,
      <<"<", "t", "h", "i", "n", "k">>,
      <<"x">>, <<" ">>, <<"\n">> }

InitStrip ==
    /\ pc = "start"
    /\ \E tk \in SeqsUpTo(RTokens, MaxRTokens) : response = Flatten(tk)
    /\ showThinking = FALSE
    /\ processed = << >>
    /\ IdleFs
    /\ IdleLoad
    /\ IdleValidate
    /\ IdleGit
    /\ IdleGen
    /\ IdlePrompt
    /\ IdleRun
    /\ IdleUtil

ProcessResponse ==
    /\ pc = "start"
    /\ \E show \in BOOLEAN :
          /\ showThinking' = show
          /\ processed' = processResponse(response, show)
    /\ pc' = "done"
    /\ UNCHANGED <<fsVars, loadVars, validateVars, gitVars, response, genVars, utilVars, promptVars,
                   runVars>>

NextStrip == ProcessResponse

SpecStrip == InitStrip /\ [][NextStrip]_vars

\* What C8..C10 speak of, read off the response text.
MarkerAt(t, i, marker) ==
    /\ i + Len(marker) - 1 <= Len(t)
    /\ \A j \in 1..Len(marker) : SameLetter(t[i + j - 1], marker[j])

OpensIn(t) == {o \in 1..Len(t) : MarkerAt(t, o, <<"<", "t", "h", "i", "n", "k", ">">>)}
ClosesIn(t) == {c \in 1..Len(t) : MarkerAt(t, c, <<"<", "/", "t", "h", "i", "n", "k", ">">>)}

\* The spans <<first, last>> that run from an open marker to the end of the
\* nearest close marker that follows it.
PairSpans(t) ==
    {<<o, Min({c \in ClosesIn(t) : c > o}) + 7>> :
         o \in {o \in OpensIn(t) : \E c \in ClosesIn(t) : c > o}}

\* The text outside the spans, in its order.
Outside(t, spans) ==
    LET indexed == [p \in 1..Len(t) |-> <<p, t[p]>>]
        kept == SelectSeq(indexed, LAMBDA e : ~\E sp \in spans : sp[1] <= e[1] /\ e[1] <= sp[2])
    IN [k \in 1..Len(kept) |-> kept[k][2]]

IsSuffix(a, b) ==
    Len(a) <= Len(b) /\ \A i \in 1..Len(a) : a[i] = b[Len(b) - Len(a) + i]

\* C8: with showThinking (preserve) set, processResponse returns its input
\* unchanged, markers and surrounding whitespace included.
C8_PreserveIsIdentity ==
    (pc = "done" /\ showThinking) => processed = response

\* C8 witness: a response with a marker pair and surrounding whitespace is
\* returned as it came.
C8_Witness ==
    /\ pc = "done"
    /\ showThinking
    /\ PairSpans(response) # {}
    /\ IsSpace(response[1])
    /\ IsSpace(response[Len(response)])
    /\ processed = response

\* C9: without showThinking, every substring from an open marker to the
\* nearest close marker after it is removed (markers in any letter case,
\* newlines inside allowed, any number of pairs), the text outside is kept
\* in order with its spacing, and the result is trimmed at both ends.
C9_PairsRemoved ==
    (pc = "done" /\ ~showThinking) =>
        LET kept == Outside(response, PairSpans(response)) IN
        /\ Blank(kept) => processed = << >>
        /\ ~Blank(kept) =>
               /\ processed # << >>
               /\ ~IsSpace(processed[1])
               /\ ~IsSpace(processed[Len(processed)])
               /\ \E lead \in 0..(Len(kept) - Len(processed)) :
                      /\ \A i \in 1..lead : IsSpace(kept[i])
                      /\ \A i \in (lead + Len(processed) + 1)..Len(kept) : IsSpace(kept[i])
                      /\ processed = SubSeq(kept, lead + 1, lead + Len(processed))

\* C9 witness: two pairs, one in mixed letter case and one around a newline,
\* with text between them and whitespace at one end.
C9_Witness ==
    /\ pc = "done"
    /\ ~showThinking
    /\ Cardinality(PairSpans(response)) = 2
    /\ \E sp \in PairSpans(response) : response[sp[1] + 1] = "T"
    /\ \E sp \in PairSpans(response) : \E i \in sp[1]..sp[2] : response[i] = "\n"
    /\ IsSpace(response[1])
    /\ processed = <<"x">>

\* C10: markers without a counterpart stay: an open marker with no close
\* marker after it stays in the output with all the text that follows it, and
\* a close marker with no open marker before it stays with all the text that
\* precedes it (whitespace at the very ends of the output aside).
C10_UnmatchedKept ==
    (pc = "done" /\ ~showThinking) =>
        LET unclosed == {o \in OpensIn(response) : ~\E c \in ClosesIn(response) : c > o}
            stray == {c \in ClosesIn(response) : ~\E o \in OpensIn(response) : o < c}
        IN /\ unclosed # {} =>
                  IsSuffix(TrimEnd(SubSeq(response, Min(unclosed), Len(response))), processed)
           /\ stray # {} =>
                  IsPrefix(TrimStart(SubSeq(response, 1, Max(stray) + 7)), processed)

\* C10 witness: a close marker with nothing to close, then a pair, then an
\* open marker that is never closed.
C10_Witness ==
    /\ pc = "done"
    /\ ~showThinking
    /\ PairSpans(response) # {}
    /\ \E o \in OpensIn(response) : ~\E c \in ClosesIn(response) : c > o
    /\ \E c \in ClosesIn(response) : ~\E o \in OpensIn(response) : o < c
    /\ Len(processed) = 15

(***************************************************************************)
(* Message generation: PRGenerator.generatePRMessage run in the top        *)
(* directory of the file system, which is a repository root or not, with a *)
(* custom template file and the first candidate of the repository, each    *)
(* absent, empty, short, or as long as the length limit or one more.       *)
(***************************************************************************)
LongText(n) == [i \in 1..n |-> "a"]

GenFile(kind, name) ==
    CASE kind = "dummy" -> [exists |-> TRUE, readable |-> TRUE, text |-> Dummy]
      [] kind = "atLimit" ->
            [exists |-> TRUE, readable |-> TRUE, text |-> LongText(MaxTemplateLength)]
      [] kind = "overLimit" ->
            [exists |-> TRUE, readable |-> TRUE, text |-> LongText(MaxTemplateLength + 1)]
      [] OTHER -> FileOfKind(kind, 0, name)

CustomKinds == {"absent", "marked", "atLimit", "overLimit"}
CandidateKinds == {"absent", "empty", "marked", "dummy", "overLimit"}

GenFiles(customKind, candidateKind) ==
    [p \in {0} \X FileNames |->
        IF p[2] = CustomName THEN GenFile(customKind, p[2])
        ELSE IF p[2] = DEFAULT_TEMPLATE_PATHS[1] THEN GenFile(candidateKind, p[2])
        ELSE Absent]

GenPaths ==
    {NotGivenPath,
     [given |-> TRUE, abs |-> FALSE, dir |-> 0, name |-> ""],
     [given |-> TRUE, abs |-> FALSE, dir |-> 0, name |-> CustomName]}

GenContexts ==
    {NotGivenText,
     [given |-> TRUE, text |-> << >>],
     [given |-> TRUE, text |-> <<"c", "t", "x">>]}

GenCommitInfo ==
    [thrown |-> FALSE,
     messages |-> <<"-", " ", "m">>,
     fileChanges |-> <<"M", "\t", "f">>,
     diffStats |-> <<"1", " ", "+">>,
     codeSample |-> <<"+", "c">>]

Replies ==
    {[kind |-> "timeout", response |-> << >>],
     [kind |-> "network", response |-> << >>],
     [kind |-> "status", response |-> << >>],
     [kind |-> "json", response |-> << >>],
     [kind |-> "json", response |-> <<"#", " ", "T", "\n", "b">>],
     [kind |-> "json", response |-> Flatten(<<OpenMarker, <<"x">>, CloseMarker, <<" ", "y", "\n">> >>)]}

InitGen ==
    /\ pc = "start"
    /\ cwdDepth = 0
    /\ gitDirs \in SUBSET {0}
    /\ \E ck \in CustomKinds, dk \in CandidateKinds : files = GenFiles(ck, dk)
    /\ genArgs \in [model : {"qwen3:latest"},
                    sourceBranch : {<<"f", "e", "a", "t">>},
                    targetBranch : {<<"m", "a", "i", "n">>},
                    noEmojis : BOOLEAN,
                    showThinking : BOOLEAN,
                    silent : BOOLEAN,
                    templatePath : GenPaths,
                    context : GenContexts]
    /\ commitInfo = GenCommitInfo
    /\ gitRuns = NoRuns
    /\ logs = << >>
    /\ request = NoRequest
    /\ genResult = NoResult
    /\ IdleLoad
    /\ IdleValidate
    /\ IdleStrip
    /\ IdleUtil
    /\ IdlePrompt
    /\ IdleRun

\* generatePRMessage up to the await of the backend call: the template is
\* loaded, the log lines are written and the request is handed to generate;
\* a template that cannot be loaded ends the call with the error.
GeneratePRMessage ==
    /\ pc = "start"
    /\ LET started == startGeneration(genArgs, commitInfo)
       IN /\ logs' = started.logs
          /\ request' = started.request
          /\ genResult' = started.result
          /\ pc' = IF started.ok THEN "awaiting" ELSE "failed"
    /\ UNCHANGED <<fsVars, loadVars, validateVars, gitVars, stripVars, genArgs, utilVars, promptVars,
                   runVars>>

\* The backend call settles: generatePRMessage returns the processed
\* response, or throws what generate threw.
GenerateSettles ==
    /\ pc = "awaiting"
    /\ \E reply \in Replies :
          LET result == generate(reply) IN
          IF result.ok
          THEN /\ response' = result.response
               /\ showThinking' = genArgs.showThinking
               /\ processed' = processResponse(result.response, genArgs.showThinking)
               /\ genResult' = GenReturned(processed')
               /\ pc' = "done"
          ELSE /\ genResult' = GenThrown(result.message)
               /\ pc' = "failed"
               /\ UNCHANGED stripVars
    /\ UNCHANGED <<fsVars, loadVars, validateVars, gitVars, genArgs, logs, request, utilVars, promptVars,
                   runVars>>

NextGen == GeneratePRMessage \/ GenerateSettles

SpecGen == InitGen /\ [][NextGen]_vars

\* The template text inside a prompt: what stands between the template
\* heading and the branch heading.
EmbeddedTemplate(text) ==
    IF \E i \in 1..Len(text) : text[i] = "TEMPLATE STRUCTURE TO FOLLOW:\n"
    THEN LET h == CHOOSE i \in 1..Len(text) : text[i] = "TEMPLATE STRUCTURE TO FOLLOW:\n"
             b == Min({j \in (h + 1)..Len(text) :
                          text[j] = "\n\nBRANCH INFO:\n- Source branch: "})
         IN SubSeq(text, h + 1, b - 1)
    ELSE << >>

\* C6: the template text embedded in any payload sent to the generation
\* backend is never longer than 10,000 characters.
C6_TemplateCapped ==
    request.sent => Len(EmbeddedTemplate(request.prompt)) <= 10000

(***************************************************************************)
(* The marker utilities, each applied to the responses of SpecStrip.       *)
(***************************************************************************)
InitTags ==
    /\ pc = "start"
    /\ \E tk \in SeqsUpTo(RTokens, MaxRTokens) : response = Flatten(tk)
    /\ showThinking = FALSE
    /\ processed = << >>
    /\ tags = NoTags
    /\ prMessage = << >>
    /\ titleBody = NoTitleBody
    /\ limiting = NotLimiting
    /\ IdleFs
    /\ IdleLoad
    /\ IdleValidate
    /\ IdleGit
    /\ IdleGen
    /\ IdlePrompt
    /\ IdleRun

HasThinkingTags ==
    /\ pc = "start"
    /\ tags' = [tags EXCEPT !.has = hasThinkingTags(response)]
    /\ pc' = "tested"
    /\ UNCHANGED <<fsVars, loadVars, validateVars, gitVars, stripVars, genVars,
                   prMessage, titleBody, limiting, promptVars,
                   runVars>>

ExtractThinkingContent ==
    /\ pc = "start"
    /\ tags' = [tags EXCEPT !.contents = extractThinkingContent(response)]
    /\ pc' = "extracted"
    /\ UNCHANGED <<fsVars, loadVars, validateVars, gitVars, stripVars, genVars,
                   prMessage, titleBody, limiting, promptVars,
                   runVars>>

CountThinkingTags ==
    /\ pc = "start"
    /\ tags' = [tags EXCEPT !.count = countThinkingTags(response)]
    /\ pc' = "counted"
    /\ UNCHANGED <<fsVars, loadVars, validateVars, gitVars, stripVars, genVars,
                   prMessage, titleBody, limiting, promptVars,
                   runVars>>

NextTags == HasThinkingTags \/ ExtractThinkingContent \/ CountThinkingTags

SpecTags == InitTags /\ [][NextTags]_vars

\* No two of the spans share a character (no pair opens inside another).
NonOverlapping(spans) ==
    \A a, b \in spans : a = b \/ a[2] < b[1] \/ b[2] < a[1]

\* The k-th of the spans, and the text between the two markers of a span.
KthSpan(spans, k) ==
    CHOOSE sp \in spans : Cardinality({o \in spans : o[1] < sp[1]}) = k - 1

InnerText(t, sp) == SubSeq(t, sp[1] + 7, sp[2] - 8)

\* C11: for a text whose marker pairs do not overlap, n of them,
\* countThinkingTags is n, extractThinkingContent lists the n trimmed inner
\* texts in order of appearance, and hasThinkingTags is true exactly when n > 0.
C11_PairsCounted ==
    pc \in {"counted", "tested", "extracted"} =>
        LET spans == PairSpans(response)
            n == Cardinality(spans)
        IN NonOverlapping(spans) =>
              /\ pc = "counted" => tags.count = n
              /\ pc = "tested" => tags.has = (n > 0)
              /\ pc = "extracted" =>
                     /\ Len(tags.contents) = n
                     /\ \A k \in 1..n :
                            tags.contents[k] = Trim(InnerText(response, KthSpan(spans, k)))

\* C11 witness: two pairs, the first with whitespace at the end of its inner
\* text, extracted in order.
C11_Witness ==
    /\ pc = "extracted"
    /\ NonOverlapping(PairSpans(response))
    /\ Cardinality(PairSpans(response)) = 2
    /\ tags.contents = << <<"r">>, <<"x">> >>
    /\ IsSpace(InnerText(response, KthSpan(PairSpans(response), 1))[2])

(***************************************************************************)
(* extractTitleAndBody on messages of a first line and up to MaxBodyLines  *)
(* further lines: headers, prefixes in several letter cases, blank lines.  *)
(***************************************************************************)
MaxBodyLines == 4

FirstLines ==
    { <<>>,
      <<" ">>,
      <<"x">>,
      <<"#", " ", "T">>,
      <<"#">>,
      <<"#", " ">>,
      <<"#", "#", " ", " ", "f", "e", "a", "t", ":", " ", "x">>,
      <<"f", "e", "a", "t", ":", " ", "A", "d", "d">>,
      <<"F", "I", "X", ":", "y">>,
      <<"f", "e", "a", "t", ":">>,
      <<"f", "i", "x", " ", "x">>,
      <<"f", "e", "a", "t", ":", " ", "#", " ", "T">>,
      <<"d", "o", "c", "s", ":", " ", "f", "i", "x", ":", " ", "x">>,
      <<"#", "x">>,
      <<"#", " ", "#", "x">>,
      <<" ", "#", " ", "T", " ">> }

FurtherLines ==
    { <<>>, <<" ">>, <<"y">>, <<" ", " ", "z", " ">> }

InitTitle ==
    /\ pc = "start"
    /\ \E first \in FirstLines, further \in SeqsUpTo(FurtherLines, MaxBodyLines) :
          prMessage = Join(<<first>> \o further)
    /\ titleBody = NoTitleBody
    /\ tags = NoTags
    /\ limiting = NotLimiting
    /\ IdleFs
    /\ IdleLoad
    /\ IdleValidate
    /\ IdleGit
    /\ IdleStrip
    /\ IdleGen
    /\ IdlePrompt
    /\ IdleRun

ExtractTitleAndBody ==
    /\ pc = "start"
    /\ titleBody' = extractTitleAndBody(prMessage)
    /\ pc' = "extracted"
    /\ UNCHANGED <<fsVars, loadVars, validateVars, gitVars, stripVars, genVars,
                   tags, prMessage, limiting, promptVars,
                   runVars>>

NextTitle == ExtractTitleAndBody

SpecTitle == InitTitle /\ [][NextTitle]_vars

\* What C12 and C13 speak of, read off the message.
FilledLines(lines) == {i \in 1..Len(lines) : ~Blank(lines[i])}

\* The line without the '#' it starts with, and without the tag it starts with.
AfterHashRun(line) ==
    SubSeq(line, Cardinality({i \in 1..Len(line) : \A j \in 1..i : line[j] = "#"}) + 1,
           Len(line))

TagLengths == {3, 4, 5, 8}

IsTag(word) ==
    \E tag \in {<<"f", "e", "a", "t">>, <<"f", "i", "x">>, <<"d", "o", "c", "s">>,
                <<"s", "t", "y", "l", "e">>, <<"r", "e", "f", "a", "c", "t", "o", "r">>,
                <<"t", "e", "s", "t">>, <<"c", "h", "o", "r", "e">>} :
        /\ Len(tag) = Len(word)
        /\ \A j \in 1..Len(tag) : SameLetter(word[j], tag[j])

AfterTag(line) ==
    IF \E n \in TagLengths : Len(line) > n /\ line[n + 1] = ":" /\ IsTag(SubSeq(line, 1, n))
    THEN LET n == CHOOSE n \in TagLengths :
                     Len(line) > n /\ line[n + 1] = ":" /\ IsTag(SubSeq(line, 1, n))
         IN SubSeq(line, n + 2, Len(line))
    ELSE line

\* The title source stripped of header and tag, whitespace around them aside.
StrippedTitle(lines) ==
    Trim(AfterTag(TrimStart(AfterHashRun(Trim(lines[Min(FilledLines(lines))])))))

\* The lines after the title line, from the first that is not blank on.
LinesOfBody(lines) ==
    LET later == {i \in FilledLines(lines) : i > Min(FilledLines(lines))} IN
    IF later = {} THEN << >> ELSE SubSeq(lines, Min(later), Len(lines))

\* C12 as stated: the title is the first non-empty line stripped of its
\* leading '#' run and its leading conventional-commit tag, and the body is
\* the lines after the title line, blank lines right after the title skipped,
\* joined by newlines (the placeholder of C13 standing for an empty body).
C12_TitleAndBody ==
    (pc = "extracted" /\ FilledLines(Split(prMessage)) # {}) =>
        LET lines == Split(prMessage) IN
        /\ titleBody.title = StrippedTitle(lines)
        /\ titleBody.body = IF LinesOfBody(lines) = << >> THEN DefaultBody
                            ELSE Join(LinesOfBody(lines))

\* C12 amended: the title is the stripped first non-empty line, or the
\* placeholder when nothing is left of it; the body is the lines after the
\* title line, blank lines right after the title skipped, joined by newlines
\* and trimmed at both ends (internal blank lines kept), or the placeholder
\* when there are none.
C12_TitleOrPlaceholder ==
    (pc = "extracted" /\ FilledLines(Split(prMessage)) # {}) =>
        LET lines == Split(prMessage) IN
        /\ titleBody.title = IF StrippedTitle(lines) = << >> THEN DefaultTitle
                             ELSE StrippedTitle(lines)
        /\ titleBody.body = IF LinesOfBody(lines) = << >> THEN DefaultBody
                            ELSE Trim(Join(LinesOfBody(lines)))

\* C12 witness: a title line with header and tag, blank lines after it, and
\* a body with a blank line inside.
C12_Witness ==
    /\ pc = "extracted"
    /\ Len(Split(prMessage)) > 2
    /\ Split(prMessage)[1] = <<"#", "#", " ", " ", "f", "e", "a", "t", ":", " ", "x">>
    /\ Blank(Split(prMessage)[2])
    /\ titleBody.title = <<"x">>
    /\ titleBody.body = <<"y", "\n", "\n", "y">>

\* C13: no field is ever empty: without a non-empty line the title is
\* "Auto-generated PR"; when nothing but blank lines follows the title line
\* the body is "No description provided"; the empty message yields both.
C13_NeverEmpty ==
    pc = "extracted" =>
        LET lines == Split(prMessage) IN
        /\ titleBody.title # << >>
        /\ titleBody.body # << >>
        /\ FilledLines(lines) = {} => titleBody.title = DefaultTitle
        /\ (FilledLines(lines) = {} \/ LinesOfBody(lines) = << >>) =>
               titleBody.body = DefaultBody
        /\ prMessage = << >> =>
               titleBody = [title |-> DefaultTitle, body |-> DefaultBody]

\* C13 witness: the empty message has yielded both placeholders.
C13_Witness ==
    /\ pc = "extracted"
    /\ prMessage = << >>
    /\ titleBody = [title |-> DefaultTitle, body |-> DefaultBody]

(***************************************************************************)
(* limitLines, called on a content of up to MaxContentLines lines and then *)
(* once more on its own result, with limits below, at and above the number *)
(* of lines, negative limits included.                                     *)
(***************************************************************************)
MaxContentLines == 4

ContentLines == {<< >>, <<"a">>, <<"b", " ">>}

InitLimit ==
    /\ pc = "start"
    /\ \E lines \in SeqsUpTo(ContentLines, MaxContentLines),
          n \in (0 - 2)..(MaxContentLines + 1) :
          limiting = [content |-> Join(lines), maxLines |-> n, results |-> << >>]
    /\ tags = NoTags
    /\ prMessage = << >>
    /\ titleBody = NoTitleBody
    /\ IdleFs
    /\ IdleLoad
    /\ IdleValidate
    /\ IdleGit
    /\ IdleStrip
    /\ IdleGen
    /\ IdlePrompt
    /\ IdleRun

\* limitLines(content, maxLines), and then limitLines of what it returned.
LimitLines ==
    /\ pc \in {"start", "limited"}
    /\ Len(limiting.results) < 2
    /\ LET content == IF limiting.results = << >> THEN limiting.content
                      ELSE limiting.results[Len(limiting.results)]
       IN limiting' = [limiting EXCEPT
                         !.results = Append(@, limitLines(content, limiting.maxLines))]
    /\ pc' = "limited"
    /\ UNCHANGED <<fsVars, loadVars, validateVars, gitVars, stripVars, genVars,
                   tags, prMessage, titleBody, promptVars,
                   runVars>>

NextLimit == LimitLines

SpecLimit == InitLimit /\ [][NextLimit]_vars

\* The lines of a text: none in the empty text.
LinesIn(t) == IF t = << >> THEN 0 ELSE LineCount(t)

\* short is the first n lines of full joined by newlines (all of full when
\* it has no more than n lines, nothing when n is not positive).
FirstNLines(short, full, n) ==
    IF n <= 0 THEN short = << >>
    ELSE IF LineCount(full) <= n THEN short = full
    ELSE /\ IsPrefix(short, full)
         /\ LineCount(short) = n
         /\ full[Len(short) + 1] = "\n"

PromptTemplates == {<< >>, <<"t">>, <<"#", " ", "S", "\n">>}
FieldTexts == {<< >>, <<"d">>}
Flags == {[given |-> FALSE, value |-> FALSE],
          [given |-> TRUE, value |-> FALSE],
          [given |-> TRUE, value |-> TRUE]}
PromptContexts ==
    {NotGivenText,
     [given |-> TRUE, text |-> << >>],
     [given |-> TRUE, text |-> <<" ">>],
     [given |-> TRUE, text |-> <<"c", "t", "x">>]}

InitPrompt ==
    /\ pc = "start"
    /\ promptArgs \in
          [template : PromptTemplates,
           info : [thrown : {FALSE}, messages : FieldTexts, fileChanges : FieldTexts,
                   diffStats : FieldTexts, codeSample : FieldTexts],
           sourceBranch : {<< >>, <<"f">>},
           targetBranch : {<<"m">>},
           options : [noEmojis : Flags, context : PromptContexts]]
    /\ prompt = << >>
    /\ IdleFs
    /\ IdleLoad
    /\ IdleValidate
    /\ IdleGit
    /\ IdleStrip
    /\ IdleGen
    /\ IdleUtil
    /\ IdleRun

GeneratePromptWithTemplate ==
    /\ pc = "start"
    /\ prompt' = generatePromptWithTemplate(promptArgs.template, promptArgs.info,
                                            promptArgs.sourceBranch,
                                            promptArgs.targetBranch, promptArgs.options)
    /\ pc' = "composed"
    /\ UNCHANGED <<fsVars, loadVars, validateVars, gitVars, stripVars, genVars, utilVars,
                   promptArgs,
                   runVars>>

\* OllamaClient.generatePRMessage up to its call of generate.
ClientGeneratePRMessage ==
    /\ pc = "start"
    /\ request' = clientRequest("qwen3:latest", promptArgs.info, promptArgs.sourceBranch,
                                promptArgs.targetBranch,
                                [noEmojis |-> promptArgs.options.noEmojis,
                                 template |-> promptArgs.template,
                                 context |-> promptArgs.options.context])
    /\ pc' = "requested"
    /\ UNCHANGED <<fsVars, loadVars, validateVars, gitVars, stripVars, utilVars,
                   genArgs, logs, genResult, promptVars,
                   runVars>>

NextPrompt == GeneratePromptWithTemplate \/ ClientGeneratePRMessage

SpecPrompt == InitPrompt /\ [][NextPrompt]_vars

\* What C15..C17 speak of, read off the composed prompt.
ThePrompt == IF pc = "requested" THEN request.prompt ELSE prompt

Has(p, part) == \E i \in 1..Len(p) : p[i] = part
IndexOf(p, part) == CHOOSE i \in 1..Len(p) : p[i] = part
Once(p, part) == Cardinality({i \in 1..Len(p) : p[i] = part}) = 1

\* The text stands between the two parts, which occur once each, in order.
Section(p, from, to, text) ==
    /\ Once(p, from)
    /\ Once(p, to)
    /\ IndexOf(p, from) < IndexOf(p, to)
    /\ SubSeq(p, IndexOf(p, from) + 1, IndexOf(p, to) - 1) = text

IsTemplatePrompt(p) == Has(p, "TEMPLATE STRUCTURE TO FOLLOW:\n")

\* C15: the template prompt holds, in this order, the preamble, the template
\* verbatim under its heading, the source and target branch names, the four
\* diff fields under their headings (commit messages, file changes, diff
\* statistics, code sample) and the instruction block; an empty field still
\* stands under its heading.
C15_FixedOrder ==
    (pc = "composed" \/ (pc = "requested" /\ promptArgs.template # << >>)) =>
        LET p == ThePrompt IN
        /\ p[1] = Preamble
        /\ p[2] = TemplateHeading
        /\ Section(p, TemplateHeading, BranchHeading, promptArgs.template)
        /\ Section(p, BranchHeading, TargetHeading, promptArgs.sourceBranch)
        /\ Section(p, TargetHeading, MessagesHeading, promptArgs.targetBranch)
        /\ Section(p, MessagesHeading, FileChangesHeading, promptArgs.info.messages)
        /\ Section(p, FileChangesHeading, DiffStatsHeading, promptArgs.info.fileChanges)
        /\ Section(p, DiffStatsHeading, CodeSampleHeading, promptArgs.info.diffStats)
        /\ Once(p, Instructions)
        /\ IndexOf(p, CodeSampleHeading) + Len(promptArgs.info.codeSample)
              < IndexOf(p, Instructions)
        /\ SubSeq(p, IndexOf(p, CodeSampleHeading) + 1,
                  IndexOf(p, CodeSampleHeading) + Len(promptArgs.info.codeSample))
              = promptArgs.info.codeSample
        /\ p[Len(p)] = GenerateNow

\* C15 witness: a template prompt whose four diff fields are all empty.
C15_Witness ==
    /\ pc = "composed"
    /\ promptArgs.template # << >>
    /\ \A f \in {"messages", "fileChanges", "diffStats", "codeSample"} :
          promptArgs.info[f] = << >>
    /\ Has(prompt, MessagesHeading)
    /\ Has(prompt, CodeSampleHeading)

\* C16: the prompt, with or without template, has an ADDITIONAL CONTEXT
\* section exactly when the context is present and not empty; the section
\* holds the context verbatim and stands right after the code sample and
\* right before the final instructions.
C16_ContextSection ==
    pc \in {"composed", "requested"} =>
        LET p == ThePrompt
            context == promptArgs.options.context
            closing == IF IsTemplatePrompt(p) THEN Instructions ELSE DefaultStructure
        IN /\ Has(p, ContextHeading) <=> (context.given /\ context.text # << >>)
           /\ Has(p, ContextHeading) =>
                 /\ Section(p, ContextHeading, ContextClosing, context.text)
                 /\ Once(p, CodeSampleHeading)
                 /\ IndexOf(p, ContextHeading)
                       = IndexOf(p, CodeSampleHeading) + Len(promptArgs.info.codeSample) + 1
                 /\ Once(p, closing)
                 /\ IndexOf(p, closing) = IndexOf(p, ContextClosing) + 1

\* C16 witness: a prompt without template that carries a context section.
C16_Witness ==
    /\ pc = "requested"
    /\ ~IsTemplatePrompt(request.prompt)
    /\ promptArgs.options.context.text = <<"c", "t", "x">>
    /\ Has(request.prompt, ContextHeading)

\* C17: the prompt, with or without template, holds the instruction against
\* emojis exactly when noEmojis is true; not when it is false or absent.
C17_EmojiInstruction ==
    pc \in {"composed", "requested"} =>
        LET p == ThePrompt
            noEmojis == promptArgs.options.noEmojis
        IN (Has(p, "\n- Do not use any emojis in the response")
               \/ Has(p, " Do not use any emojis in the response."))
           <=> (noEmojis.given /\ noEmojis.value)

\* C17 witness: noEmojis given as false, and a prompt without the instruction.
C17_Witness ==
    /\ pc = "composed"
    /\ promptArgs.options.noEmojis = [given |-> TRUE, value |-> FALSE]
    /\ ~Has(prompt, "\n- Do not use any emojis in the response")

(***************************************************************************)
(* The calls of OllamaClient on their own: getAvailableModels and generate *)
(* against every way the backend can answer.  A reply is a timeout of the  *)
(* fetch, a connection error, a non-OK status, or a body: for the model    *)
(* list its names in order, or no models array at all ("nomodels"); for a  *)
(* generation its response text, or no response field ("nofield").         *)
(***************************************************************************)
ModelNames == {"qwen3:latest", "llama3", "mistral"}
MaxModels == 2

TagReplies ==
    {[kind |-> k, names |-> << >>] : k \in {"timeout", "network", "status", "nomodels"}}
    \cup {[kind |-> "json", names |-> names] :
             names \in UNION {[1..n -> ModelNames] : n \in 0..MaxModels}}

GenerateReplies ==
    Replies \cup {[kind |-> "nofield", response |-> << >>],
                  [kind |-> "json", response |-> <<" ", "\n">>],
                  [kind |-> "json", response |-> Flatten(<<OpenMarker, <<"x">>, CloseMarker>>)]}

InitClient ==
    /\ pc = "start"
    /\ IdleFs
    /\ IdleLoad
    /\ IdleValidate
    /\ IdleGit
    /\ IdleStrip
    /\ IdleGen
    /\ IdleUtil
    /\ IdlePrompt
    /\ IdleRun

\* One call of getAvailableModels, until it settles.
GetAvailableModels ==
    /\ client.listing = << >>
    /\ \E reply \in TagReplies :
          client' = [client EXCEPT !.listing =
                        <<[reply |-> reply, result |-> getAvailableModels(reply)]>>]
    /\ UNCHANGED <<pc, fsVars, loadVars, validateVars, gitVars, stripVars, genVars, utilVars,
                   promptVars, runOpts, repo, netLog, output, written, asked, answers, runResult>>

\* One call of generate, until it settles.
Generate ==
    /\ client.generation = << >>
    /\ \E reply \in GenerateReplies :
          client' = [client EXCEPT !.generation =
                        <<[reply |-> reply, result |-> generate(reply)]>>]
    /\ UNCHANGED <<pc, fsVars, loadVars, validateVars, gitVars, stripVars, genVars, utilVars,
                   promptVars, runOpts, repo, netLog, output, written, asked, answers, runResult>>

NextClient == GetAvailableModels \/ Generate

SpecClient == InitClient /\ [][NextClient]_vars

\* The calls that have settled.
Listed == {client.listing[k] : k \in 1..Len(client.listing)}
Generated == {client.generation[k] : k \in 1..Len(client.generation)}

\* A thrown error is the timeout-specific one when its message is the
\* timeout message of the request, and the generic one when it is another.
ListTimeout == <<"Connection to Ollama timed out">>
GenerateTimeout == <<"Request timed out. The model might be taking too long to respond.">>

\* C19: a model-list request and a generation request that time out throw
\* the timeout error of the request; one that fails in another way (no
\* connection, a non-OK status) throws an error with another message; and a
\* generation answer with a missing or empty response field is thrown as an
\* error, so that no returned result has an empty text.
C19_FailuresClassified ==
    /\ \A call \in Listed :
          /\ call.reply.kind = "timeout"
                => ~call.result.ok /\ call.result.message = ListTimeout
          /\ call.reply.kind \in {"network", "status"}
                => ~call.result.ok /\ call.result.message # ListTimeout
    /\ \A call \in Generated :
          /\ call.reply.kind = "timeout"
                => ~call.result.ok /\ call.result.message = GenerateTimeout
          /\ call.reply.kind \in {"network", "status"}
                => ~call.result.ok /\ call.result.message # GenerateTimeout
          /\ call.reply.kind = "nofield" \/ call.reply.response = << >>
                => ~call.result.ok
          /\ call.result.ok => call.result.response # << >>

\* An empty response field has been answered to a generation request, and a
\* model-list request has timed out.
C19_Witness ==
    /\ \E call \in Listed : call.reply.kind = "timeout" /\ ~call.result.ok
    /\ \E call \in Generated :
          call.reply = [kind |-> "json", response |-> << >>] /\ ~call.result.ok

(***************************************************************************)
(* PRGenerator.run.  What run writes with this.log is appended to logs,    *)
(* each line a sequence of strings that starts with the marker of its      *)
(* level; what it writes with console.log itself is appended to output.    *)
(***************************************************************************)
Info(text) == <<"[INFO]">> \o text
Warn(text) == <<"[WARN]">> \o text
Error(text) == <<"[ERROR]">> \o text
Success(text) == <<"[OK]">> \o text   \* the check mark of log.success

\* A fetch that is issued again after the first request.
fetchAgain(requests, endpoint) == requests \o <<endpoint, endpoint>>

\* One call of fetch by OllamaClient: one request to the endpoint.
fetch(requests, endpoint) == Append(requests, endpoint)

\* How run ends: with the message it returns, or with the error it throws
\* and the step that threw it.
RunReturned(text) ==
    [status |-> "returned", step |-> "", text |-> text, message |-> << >>]
RunThrown(step, message) ==
    [status |-> "thrown", step |-> step, text |-> << >>, message |-> message]

\* The source branch run works with: options.source, or the current branch.
finalSourceBranch(opts) ==
    IF TruthyText(opts.source) THEN Branch(opts.source.text) ELSE getCurrentBranch

\* The target branch run works with: options.target, or the detected one.
finalTargetBranch(opts) ==
    IF TruthyText(opts.target) THEN Branch(opts.target.text) ELSE detectDefaultBranch

Missing(branch) == branch.isNull \/ branch.name = << >>

\* run up to its first await: the repository and branch checks, in order.
\* [ok, step, error, logs]
runPrologue(opts) ==
    LET source == finalSourceBranch(opts)
        target == finalTargetBranch(opts)
        detected == IF ~TruthyText(opts.target) /\ ~opts.ci
                    THEN <<Info(<<"Auto-detected target branch: ">> \o target.name)>>
                    ELSE << >>
        Stop(step, message, lines) ==
            [ok |-> FALSE, step |-> step, error |-> message, logs |-> lines]
    IN IF ~isGitRepo THEN Stop("repository", <<"Not in a git repository">>, << >>)
       ELSE IF Missing(source) THEN Stop("source", <<"Could not determine current branch">>, << >>)
       ELSE IF Missing(target)
       THEN Stop("target", <<"Could not detect default branch. Please specify target branch.">>, << >>)
       ELSE IF ~branchExists(source.name)
       THEN Stop("source", <<"Source branch '">> \o source.name \o <<"' does not exist">>, detected)
       ELSE IF ~branchExists(target.name)
       THEN Stop("target", <<"Target branch '">> \o target.name \o <<"' does not exist">>, detected)
       ELSE [ok |-> TRUE,
             step |-> "",
             error |-> << >>,
             logs |-> detected
                      \o (IF ~opts.ci
                          THEN <<Info(<<"Source branch: ">> \o source.name),
                                 Info(<<"Target branch: ">> \o target.name),
                                 Info(<<"Model: ", opts.model>>),
                                 Info(<<"Checking Ollama setup...">>)>>
                          ELSE << >>)]

\* The check of the backend in CI mode without the lookup of the model: a
\* list that has settled passes.
ciModelCheckAnyModel(model, models) ==
    IF models.ok
    THEN [ok |-> TRUE, error |-> << >>, logs |-> << >>, output |-> << >>]
    ELSE [ok |-> FALSE, error |-> <<"Ollama is not accessible at ", Host>>,
          logs |-> << >>, output |-> << >>]

\* The check of the backend in CI mode, once the model list has settled:
\* whatever is thrown inside the try, the catch throws the same error.
\* [ok, error, logs, output]
ciModelCheck(model, models) ==
    IF models.ok /\ includes(models.names, model)
    THEN [ok |-> TRUE, error |-> << >>, logs |-> << >>, output |-> << >>]
    ELSE [ok |-> FALSE, error |-> <<"Ollama is not accessible at ", Host>>,
          logs |-> << >>, output |-> << >>]

\* checkOllamaSetup once the model list has settled, and the throw of run
\* when it returns false.  [ok, error, logs, output]
checkOllamaSetup(model, models) ==
    IF ~models.ok
    THEN [ok |-> FALSE, error |-> <<"Ollama setup check failed">>,
          logs |-> <<Error(<<"Ollama is not accessible at ", Host>>),
                     Error(<<"Make sure Ollama is running: ollama serve">>)>>,
          output |-> << >>]
    ELSE IF ~includes(models.names, model)
    THEN [ok |-> FALSE, error |-> <<"Ollama setup check failed">>,
          logs |-> <<Warn(<<"Model '", model, "' not found. Available models:">>),
                     Info(<<"To install a model: ollama pull <model-name>">>)>>,
          output |-> [k \in 1..Len(models.names) |-> <<"  - ", models.names[k]>>]]
    ELSE [ok |-> TRUE, error |-> << >>,
          logs |-> <<Success(<<"Ollama is running and model '", model, "' is available">>)>>,
          output |-> << >>]

\* The arguments run passes to generatePRMessage.
runGenArgs(opts) ==
    [model |-> opts.model,
     sourceBranch |-> finalSourceBranch(opts).name,
     targetBranch |-> finalTargetBranch(opts).name,
     noEmojis |-> opts.noEmojis,
     showThinking |-> opts.showThinking,
     silent |-> opts.ci,
     templatePath |-> opts.templatePath,
     context |-> opts.context]

\* The condition of the no-changes check with || in place of &&.
noChangesEither(info) == info.messages = << >> \/ info.fileChanges = << >>

\* `!commitInfo.messages && !commitInfo.fileChanges`
noChanges(info) == info.messages = << >> /\ info.fileChanges = << >>

\* run from the model check to its next await: the commits are collected,
\* an empty collection is refused, and generatePRMessage is started.
\* [ok, step, error, logs, info, collected, started]
runCollect(opts, runs) ==
    LET info == getCommitsInfo(runs)
        args == runGenArgs(opts)
        analyzing == IF ~opts.ci
                     THEN <<Info(<<"Analyzing commits between ">> \o args.targetBranch
                                 \o <<" and ">> \o args.sourceBranch \o <<"...">>)>>
                     ELSE << >>
        started == startGeneration(args, info)
    IN IF info.thrown
       THEN [ok |-> FALSE, step |-> "commits",
             error |-> <<"Git command failed: ", "merge-base">>,
             logs |-> analyzing, info |-> NoCommitInfo, collected |-> FALSE,
             started |-> FALSE]
       ELSE IF noChanges(info)
       THEN [ok |-> FALSE, step |-> "changes",
             error |-> <<"No commits found between ">> \o args.targetBranch
                       \o <<" and ">> \o args.sourceBranch,
             logs |-> analyzing, info |-> info, collected |-> TRUE, started |-> FALSE]
       ELSE [ok |-> started.ok, step |-> "generation",
             error |-> started.result.message,
             logs |-> analyzing \o started.logs,
             info |-> info, collected |-> TRUE, started |-> TRUE]

\* The CI output object with body written before title.
ciOutputBodyFirst(extracted, source, target) ==
    <<"{", "\"body\": ">> \o extracted.body
    \o <<"\"title\": ">> \o extracted.title
    \o <<"\"source_branch\": ">> \o source
    \o <<"\"target_branch\": ">> \o target
    \o <<"}">>

\* JSON.stringify(output, null, 2) of the CI output object: the keys in the
\* order of the object literal.
ciOutput(extracted, source, target) ==
    <<"{", "\"title\": ">> \o extracted.title
    \o <<"\"body\": ">> \o extracted.body
    \o <<"\"source_branch\": ">> \o source
    \o <<"\"target_branch\": ">> \o target
    \o <<"}">>

\* What the non-CI branch displays.
display(message) ==
    << <<"\n", "=== GENERATED PR MESSAGE ===">>,
       <<"==================================================">>,
       message,
       <<"==================================================">> >>

\* OutputProcessor.generateFilename with its defaults, at the time of the
\* call.
generateFilename == "pr_message_<timestamp>.md"

\* saveToFile and the log line after it.
saved(message) == [name |-> generateFilename, content |-> message]
savedLog == Success(<<"PR message saved to: ", generateFilename>>)

\* A prompt that takes every answer that is not empty for a yes.
saysAnything(answer) == answer # << >>

\* answer.toLowerCase().startsWith("y")
saysYes(answer) == answer # << >> /\ LowerChar(answer[1]) = "y"

(***************************************************************************)
(* The runs checked.  The repository is one of RunRepos: none; one without *)
(* a current branch; the usual one, on branch feat with origin/HEAD at     *)
(* main; one whose default branch is found among the common names; one     *)
(* without any; one whose origin/HEAD names a branch that does not exist;  *)
(* one whose current branch has no ref.  Its commits are one of RunGitRuns *)
(* and its template files one of RunFiles.                                 *)
(***************************************************************************)
Feat == <<"f", "e", "a", "t">>
Main == <<"m", "a", "i", "n">>
Master == <<"m", "a", "s", "t", "e", "r">>
Gone == <<"g", "o", "n", "e">>

UsualRepo ==
    [gitDir |-> TRUE, current |-> Printed(Feat \o <<"\n">>),
     remoteHead |-> Printed(RemotePrefix \o Main \o <<"\n">>),
     refs |-> {<<"heads", Feat>>, <<"heads", Main>>, <<"remotes", Main>>}]

RunRepos ==
    {NoRepo,
     UsualRepo,
     [UsualRepo EXCEPT !.current = Failed],
     [UsualRepo EXCEPT !.current = Printed(<< >>)],
     [UsualRepo EXCEPT !.remoteHead = Failed,
                       !.refs = {<<"heads", Feat>>, <<"remotes", Master>>}],
     [UsualRepo EXCEPT !.remoteHead = Failed, !.refs = {<<"heads", Feat>>}],
     [UsualRepo EXCEPT !.remoteHead = Printed(RemotePrefix \o Gone)],
     [UsualRepo EXCEPT !.refs = {<<"heads", Main>>}]}

RunBranches ==
    {NotGivenText, [given |-> TRUE, text |-> << >>],
     [given |-> TRUE, text |-> Feat], [given |-> TRUE, text |-> Gone]}

RunTargets == {NotGivenText, [given |-> TRUE, text |-> Main]}

SomeRuns ==
    [mergeBase |-> Printed(<<"b">>), log |-> Printed(<<"-", " ", "m">>),
     nameStatus |-> Printed(<<"M", "\t", "f">>), stat |-> Printed(<<"1", " ", "+">>),
     diff |-> Printed(<<"+", "c">>)]

RunGitRuns ==
    {SomeRuns,
     [SomeRuns EXCEPT !.mergeBase = Failed],
     [SomeRuns EXCEPT !.log = Printed(<< >>)],
     [SomeRuns EXCEPT !.nameStatus = Printed(<<"\n">>)],
     [SomeRuns EXCEPT !.log = Printed(<<" ">>), !.nameStatus = Printed(<< >>)],
     [SomeRuns EXCEPT !.log = Failed, !.nameStatus = Printed(<< >>)],
     [SomeRuns EXCEPT !.log = Printed(<< >>), !.nameStatus = Failed]}

RunFiles ==
    {GenFiles(ck, dk) : ck \in {"absent", "empty", "marked"},
                        dk \in {"absent", "marked"}}

RunPaths == {NotGivenPath, [given |-> TRUE, abs |-> FALSE, dir |-> 0, name |-> CustomName]}

\* The answers to the model-list request of a run: the failures, three lists
\* without the model of the run, and one with it.
RunTagReplies ==
    {[kind |-> k, names |-> << >>] : k \in {"timeout", "network", "status", "nomodels"}}
    \cup {[kind |-> "json", names |-> names] :
             names \in {<< >>, <<"llama3">>, <<"llama3", "mistral">>,
                        <<"llama3", "qwen3:latest">>}}

Answers == {<< >>, <<"y">>, <<"Y", "e", "s">>, <<"n">>}

\* The runs that differ in how the repository and the branches are found,
\* and the runs in the usual repository that differ in everything else.
RunOptions ==
    [source : RunBranches, target : RunTargets, model : {"qwen3:latest"},
     save : {FALSE}, interactive : {TRUE}, noEmojis : {FALSE},
     showThinking : {FALSE}, ci : BOOLEAN, templatePath : {NotGivenPath},
     context : {NotGivenText}]
    \cup
    [source : {NotGivenText}, target : {NotGivenText}, model : {"qwen3:latest"},
     save : BOOLEAN, interactive : BOOLEAN, noEmojis : BOOLEAN,
     showThinking : BOOLEAN, ci : BOOLEAN, templatePath : RunPaths,
     context : {NotGivenText, [given |-> TRUE, text |-> <<"c", "t", "x">>]}]

InitRun ==
    /\ pc = "start"
    /\ cwdDepth = 0
    /\ runOpts \in RunOptions
    /\ repo \in RunRepos
    /\ gitRuns \in RunGitRuns
    /\ files \in RunFiles
    /\ \/ repo = UsualRepo /\ runOpts.noEmojis = FALSE /\ runOpts.context = NotGivenText
       \/ gitRuns = SomeRuns /\ files = GenFiles("absent", "absent")
    /\ repo # UsualRepo => gitRuns = SomeRuns /\ files = GenFiles("absent", "absent")
    /\ gitDirs = IF repo.gitDir THEN {0} ELSE {}
    /\ commitInfo = NoCommitInfo
    /\ netLog = << >>
    /\ output = << >>
    /\ written = << >>
    /\ asked = 0
    /\ answers = << >>
    /\ client = NoCalls
    /\ runResult = NotRun
    /\ IdleLoad
    /\ IdleValidate
    /\ IdleStrip
    /\ IdleGen
    /\ IdleUtil
    /\ IdlePrompt

\* run up to the await of the model list: the repository and the branches
\* are checked and the request for the model list is issued.
Run ==
    /\ pc = "start"
    /\ LET prologue == runPrologue(runOpts)
       IN /\ logs' = prologue.logs
          /\ IF prologue.ok
             THEN /\ netLog' = fetch(netLog, "tags")
                  /\ runResult' = runResult
                  /\ pc' = "listing"
             ELSE /\ netLog' = netLog
                  /\ runResult' = RunThrown(prologue.step, prologue.error)
                  /\ pc' = "failed"
    /\ UNCHANGED <<fsVars, loadVars, validateVars, gitVars, stripVars, genArgs, request,
                   genResult, utilVars, promptVars, runOpts, repo, output, written,
                   asked, answers, client>>

\* The model list settles: the model is looked up, the commits are
\* collected and generatePRMessage runs up to the await of the backend.
ModelsSettle ==
    /\ pc = "listing"
    /\ \E reply \in RunTagReplies :
          LET models == getAvailableModels(reply)
              check == IF runOpts.ci THEN ciModelCheck(runOpts.model, models)
                       ELSE checkOllamaSetup(runOpts.model, models)
              collect == runCollect(runOpts, gitRuns)
          IN /\ client' = [client EXCEPT !.listing =
                               Append(@, [reply |-> reply, result |-> models])]
             /\ IF ~check.ok
                THEN /\ logs' = logs \o check.logs
                     /\ output' = output \o check.output
                     /\ runResult' = RunThrown("backend", check.error)
                     /\ pc' = "failed"
                     /\ UNCHANGED <<commitInfo, genArgs, request, genResult, netLog>>
                ELSE /\ logs' = logs \o check.logs \o collect.logs
                     /\ output' = output \o check.output
                     /\ commitInfo' = collect.info
                     /\ IF collect.started
                        THEN /\ genArgs' = runGenArgs(runOpts)
                             /\ request' = startGeneration(runGenArgs(runOpts),
                                                           collect.info).request
                             /\ genResult' = startGeneration(runGenArgs(runOpts),
                                                             collect.info).result
                        ELSE UNCHANGED <<genArgs, request, genResult>>
                     /\ IF collect.ok
                        THEN /\ netLog' = fetch(netLog, "generate")
                             /\ runResult' = runResult
                             /\ pc' = "awaiting"
                        ELSE /\ netLog' = netLog
                             /\ runResult' = RunThrown(collect.step, collect.error)
                             /\ pc' = "failed"
    /\ UNCHANGED <<fsVars, loadVars, validateVars, gitRuns, stripVars, utilVars, promptVars,
                   runOpts, repo, written, asked, answers>>

\* The backend call of generatePRMessage settles: the response is processed
\* and, unless empty, put out: as JSON in CI mode, else displayed and then
\* saved, offered for saving, or neither.
GenerationSettles ==
    /\ pc = "awaiting"
    /\ \E reply \in GenerateReplies :
          LET result == generate(reply)
              message == processResponse(result.response, genArgs.showThinking)
          IN /\ client' = [client EXCEPT !.generation =
                               Append(@, [reply |-> reply, result |-> result])]
             /\ IF ~result.ok
                THEN /\ genResult' = GenThrown(result.message)
                     /\ runResult' = RunThrown("generation", GenThrown(result.message).message)
                     /\ pc' = "failed"
                     /\ UNCHANGED <<stripVars, utilVars, logs, output, written, asked>>
                ELSE /\ response' = result.response
                     /\ showThinking' = genArgs.showThinking
                     /\ processed' = message
                     /\ genResult' = GenReturned(message)
                     /\ IF message = << >>
                        THEN /\ runResult' = RunThrown("message", <<"Failed to generate PR message">>)
                             /\ pc' = "failed"
                             /\ UNCHANGED <<utilVars, logs, output, written, asked>>
                        ELSE IF runOpts.ci
                        THEN /\ prMessage' = message
                             /\ titleBody' = extractTitleAndBody(message)
                             /\ output' = Append(output,
                                                 ciOutput(extractTitleAndBody(message),
                                                          genArgs.sourceBranch,
                                                          genArgs.targetBranch))
                             /\ runResult' = RunReturned(message)
                             /\ pc' = "done"
                             /\ UNCHANGED <<tags, limiting, logs, written, asked>>
                        ELSE /\ output' = output \o display(message)
                             /\ IF runOpts.save
                                THEN /\ logs' = logs
                                               \o <<Success(<<"PR message generated successfully!">>),
                                                    savedLog>>
                                     /\ written' = Append(written, saved(message))
                                     /\ asked' = asked
                                     /\ runResult' = RunReturned(message)
                                     /\ pc' = "done"
                                ELSE IF runOpts.interactive
                                THEN /\ logs' = Append(logs,
                                                       Success(<<"PR message generated successfully!">>))
                                     /\ written' = written
                                     /\ asked' = asked + 1
                                     /\ runResult' = runResult
                                     /\ pc' = "asking"
                                ELSE /\ logs' = Append(logs,
                                                       Success(<<"PR message generated successfully!">>))
                                     /\ written' = written
                                     /\ asked' = asked
                                     /\ runResult' = RunReturned(message)
                                     /\ pc' = "done"
                             /\ UNCHANGED utilVars
    /\ UNCHANGED <<fsVars, loadVars, validateVars, gitVars, genArgs, request, promptVars,
                   runOpts, repo, netLog, answers>>

\* The user answers the question of promptUser: the message is saved on an
\* answer that starts with y or Y, and run returns.
UserAnswers ==
    /\ pc = "asking"
    /\ \E answer \in Answers :
          /\ answers' = Append(answers, answer)
          /\ IF saysYes(answer)
             THEN /\ written' = Append(written, saved(processed))
                  /\ logs' = Append(logs, savedLog)
             ELSE UNCHANGED <<written, logs>>
    /\ runResult' = RunReturned(processed)
    /\ pc' = "done"
    /\ UNCHANGED <<fsVars, loadVars, validateVars, gitVars, stripVars, genArgs, request,
                   genResult, utilVars, promptVars, runOpts, repo, netLog, output, asked,
                   client>>

NextRun == Run \/ ModelsSettle \/ GenerationSettles \/ UserAnswers

SpecRun == InitRun /\ [][NextRun]_vars

\* What C18 and C20 speak of, read off the state of a run.
\* run has thrown an error whose message starts with the given words.
ThrownWith(words) ==
    /\ runResult.status = "thrown"
    /\ runResult.message # << >>
    /\ runResult.message[1] = words

NoChangesError == ThrownWith("No commits found between ")

\* The template of the run could not be resolved.
TemplateError ==
    /\ runResult.status = "thrown"
    /\ Len(runResult.message) >= 2
    /\ runResult.message[2] = "Failed to load template from "

\* run has got past the collection of the diff summary, which is commitInfo.
Summarized ==
    \/ pc \in {"awaiting", "asking", "done"}
    \/ pc = "failed" /\ runResult.step \in {"changes", "generation", "message"}

ModelAbsent ==
    \E call \in Listed : call.result.ok /\ ~includes(call.result.names, runOpts.model)

\* The errors the run throws when the backend cannot be reached: when the
\* model-list request times out, finds no connection or gets a non-OK status.
UnreachableErrors ==
    {(IF runOpts.ci THEN ciModelCheck(runOpts.model, getAvailableModels(reply))
      ELSE checkOllamaSetup(runOpts.model, getAvailableModels(reply))).error :
        reply \in {r \in RunTagReplies : r.kind \in {"timeout", "network", "status"}}}

\* C20: when the backend answers the model-list request and the model of
\* the run is not in the list, run throws an error that is none of the
\* errors it throws when the backend cannot be reached, in CI mode and in
\* non-CI mode.
C20_ModelUnavailableError ==
    ModelAbsent =>
        /\ runResult.status = "thrown"
        /\ runResult.step = "backend"
        /\ runResult.message \notin UnreachableErrors

\* What C21..C23, C27 and C28 speak of, read off the state of a run.
Succeeded == pc = "done" /\ runResult.status = "returned"

\* The branches run has resolved: the option when given and not empty, else
\* what git says.
ResolvedSource == finalSourceBranch(runOpts).name
ResolvedTarget == finalTargetBranch(runOpts).name

\* C21: a run in CI mode that succeeds has written no log line and asked no
\* question, and has put out one JSON object and nothing else, with the keys
\* title, body, source_branch and target_branch in this order; title and
\* body are extractTitleAndBody of the processed response, the branch fields
\* the resolved source and target branch.
C21_CiOutput ==
    (Succeeded /\ runOpts.ci) =>
        /\ logs = << >>
        /\ asked = 0
        /\ Len(output) = 1
        /\ LET json == output[1]
               extracted == extractTitleAndBody(processed)
           IN /\ json[1] = "{"
              /\ json[2] = "\"title\": "
              /\ json[Len(json)] = "}"
              /\ Section(json, "\"title\": ", "\"body\": ", extracted.title)
              /\ Section(json, "\"body\": ", "\"source_branch\": ", extracted.body)
              /\ Section(json, "\"source_branch\": ", "\"target_branch\": ", ResolvedSource)
              /\ Section(json, "\"target_branch\": ", "}", ResolvedTarget)

\* C21 witness: a CI run with save on has succeeded on a response with a
\* reasoning block, with the target branch found by detection.
C21_Witness ==
    /\ Succeeded
    /\ runOpts.ci
    /\ runOpts.save
    /\ ~TruthyText(runOpts.target)
    /\ response # processed
    /\ Len(output) = 1

\* The branch has a local or a remote ref.
HasRef(branch) == <<"heads", branch>> \in repo.refs \/ <<"remotes", branch>> \in repo.refs

\* The requests issued so far, by kind.
Issued(kind) == {k \in 1..Len(netLog) : netLog[k] = kind}

\* The model-list call has settled with a list that holds the model.
ModelListed ==
    \E call \in Listed : call.result.ok /\ includes(call.result.names, runOpts.model)

\* The lines of output that show or emit a message: all but the model names
\* listed by checkOllamaSetup.
MessageOutput == {k \in 1..Len(output) : output[k][1] # "  - "}

RunFailed == pc = "failed"

\* C22: the generation request is issued only in a repository, with source
\* and target branch determined and existing, after a model list that holds
\* the model and a diff summary that is not empty.  A run that has thrown
\* has stopped at the throw: thrown by the repository or branch checks it
\* has issued no request; thrown before generatePRMessage it has issued no
\* generation request; and however thrown, it has displayed, saved or
\* emitted nothing and has not returned.
C22_FixedOrder ==
    /\ Issued("generate") # {} =>
          /\ repo.gitDir
          /\ ResolvedSource # << >> /\ HasRef(ResolvedSource)
          /\ ResolvedTarget # << >> /\ HasRef(ResolvedTarget)
          /\ Issued("tags") # {} /\ Min(Issued("tags")) < Min(Issued("generate"))
          /\ ModelListed
          /\ ~(commitInfo.messages = << >> /\ commitInfo.fileChanges = << >>)
          /\ request.sent
    /\ runResult.status = "thrown" =>
          /\ RunFailed
          /\ runResult.step \in {"repository", "source", "target"} => netLog = << >>
          /\ runResult.step \in {"repository", "source", "target", "backend",
                                 "commits", "changes"}
                => Issued("generate") = {} /\ ~request.sent
          /\ TemplateError => Issued("generate") = {} /\ ~request.sent
          /\ MessageOutput = {}
          /\ written = << >>
          /\ asked = 0
    /\ RunFailed => runResult.status = "thrown" /\ runResult.text = << >>

\* C22 witness: a non-CI run with save on has thrown the no-changes error
\* after a model list that holds the model.
C22_Witness ==
    /\ RunFailed
    /\ NoChangesError
    /\ ~runOpts.ci
    /\ runOpts.save
    /\ ModelListed
    /\ Issued("generate") = {}

MaxSTokens == 4

STokens ==
    { <<"<", "t", "h", "i", "n", "k", ">">>,
      <<"<", "/", "t", "h", "i", "n", "k", ">">>,
      <<"<", "T", "h", "i", "n", "k", ">", "x", "<", "/", "t", "h", "i", "n", "k", ">">>,
      <<"<", "t", "h", "i">>,
      <<"n", "k", ">", "y">>,
      <<" ">> }

InitReprocess ==
    /\ pc = "start"
    /\ \E tk \in SeqsUpTo(STokens, MaxSTokens) : response = Flatten(tk)
    /\ showThinking = FALSE
    /\ processed = << >>
    /\ IdleFs
    /\ IdleLoad
    /\ IdleValidate
    /\ IdleGit
    /\ IdleGen
    /\ IdlePrompt
    /\ IdleRun
    /\ IdleUtil

\* hasThinkingTags, extractThinkingContent and countThinkingTags of the
\* text processResponse has returned.
InspectProcessed ==
    /\ pc = "done"
    /\ tags' = [has |-> hasThinkingTags(processed),
                contents |-> extractThinkingContent(processed),
                count |-> countThinkingTags(processed)]
    /\ pc' = "inspected"
    /\ UNCHANGED <<fsVars, loadVars, validateVars, gitVars, stripVars, genVars,
                   prMessage, titleBody, limiting, promptVars, runVars>>

\* processResponse of the text processResponse has returned, with the same
\* showThinking.
ProcessAgain ==
    /\ pc = "inspected"
    /\ prMessage' = processResponse(processed, showThinking)
    /\ pc' = "again"
    /\ UNCHANGED <<fsVars, loadVars, validateVars, gitVars, stripVars, genVars,
                   tags, titleBody, limiting, promptVars, runVars>>

NextReprocess == ProcessResponse \/ InspectProcessed \/ ProcessAgain

SpecReprocess == InitReprocess /\ [][NextReprocess]_vars

\* C24: without showThinking, the text processResponse returns holds no
\* pair of markers (hasThinkingTags is false of it and countThinkingTags is
\* 0), and processResponse returns it unchanged.
C24_NoPairLeft ==
    ~showThinking =>
        /\ pc \in {"inspected", "again"} => ~tags.has /\ tags.count = 0
        /\ pc = "again" => prMessage = processed

\* The removal of the pairs joins text into a marker: in the text outside
\* the spans, a marker starts before the place of a removed span and ends
\* behind it.
JoinedMarker(t, spans) ==
    LET kept == Outside(t, spans)
        joins == {Cardinality({p \in 1..(sp[1] - 1) :
                                  ~\E other \in spans : other[1] <= p /\ p <= other[2]}) :
                     sp \in spans}
    IN \E j \in joins, i \in 1..Len(kept) :
          \/ i <= j /\ j < i + 6 /\ MarkerAt(kept, i, <<"<", "t", "h", "i", "n", "k", ">">>)
          \/ i <= j /\ j < i + 7
                /\ MarkerAt(kept, i, <<"<", "/", "t", "h", "i", "n", "k", ">">>)

\* C24 as amended: without showThinking, the text processResponse returns
\* holds no pair of markers and is returned unchanged by processResponse,
\* unless the removal of a pair has joined the text before and behind it
\* into a marker; and the result is returned unchanged exactly when it holds
\* no pair.
C24_NoPairLeftUnlessJoined ==
    ~showThinking =>
        LET joined == JoinedMarker(response, PairSpans(response)) IN
        /\ (pc \in {"inspected", "again"} /\ ~joined) => ~tags.has /\ tags.count = 0
        /\ (pc = "again" /\ ~joined) => prMessage = processed
        /\ pc = "again" => (prMessage = processed <=> ~tags.has)

\* C24 witness: a response with two pairs and half a marker between them
\* has been processed twice, with the same result.
C24_Witness ==
    /\ pc = "again"
    /\ ~showThinking
    /\ Cardinality(PairSpans(response)) = 2
    /\ processed = <<"<", "t", "h", "i">>
    /\ prMessage = processed
    /\ ~tags.has

\* What C25 and C26 speak of, read off the message and the title.
\* The first line of the message that is not empty once trimmed.
TitleLine == Split(prMessage)[Min(FilledLines(Split(prMessage)))]

\* The text stands somewhere in the line, as it is.
TakenFrom(text, line) ==
    /\ text # << >>
    /\ \E i \in 1..(Len(line) - Len(text) + 1) : SubSeq(line, i, i + Len(text) - 1) = text

\* C25: the title is the placeholder "Auto-generated PR" only when the
\* message has no line that is non-empty after trimming; when it has one,
\* the title is text taken from the first such line.
C25_PlaceholderOnlyWithoutLines ==
    (pc = "extracted" /\ FilledLines(Split(prMessage)) # {}) =>
        TakenFrom(titleBody.title, TitleLine)

\* C25 as amended: the title is the placeholder when the message has no
\* non-empty line, and also when its first non-empty line holds nothing but
\* '#' markers, a conventional-commit tag and whitespace, so that stripping
\* leaves nothing; in every other case the title is text taken from the
\* first non-empty line.
C25_PlaceholderWhenNothingLeft ==
    pc = "extracted" =>
        LET lines == Split(prMessage) IN
        /\ FilledLines(lines) = {} => titleBody.title = DefaultTitle
        /\ (FilledLines(lines) # {} /\ StrippedTitle(lines) = << >>)
              => titleBody.title = DefaultTitle
        /\ (FilledLines(lines) # {} /\ StrippedTitle(lines) # << >>)
              => TakenFrom(titleBody.title, TitleLine)

\* C25 witness: the first line is a lone '#', more text follows, and the
\* title is the placeholder.
C25_Witness ==
    /\ pc = "extracted"
    /\ FilledLines(Split(prMessage)) # {}
    /\ TitleLine = <<"#">>
    /\ Cardinality(FilledLines(Split(prMessage))) > 1
    /\ titleBody.title = DefaultTitle

\* The text starts with a '#', or with a conventional-commit tag and its
\* colon.
BeginsWithMarker(text) ==
    \/ text # << >> /\ text[1] = "#"
    \/ \E n \in TagLengths : Len(text) > n /\ text[n + 1] = ":" /\ IsTag(SubSeq(text, 1, n))

\* The title stripping applied to a text: its leading '#' run, then its
\* leading tag, with the whitespace around them.
Restripped(text) == Trim(AfterTag(TrimStart(AfterHashRun(Trim(text)))))

\* C26: the title never begins with a '#' nor with a conventional-commit
\* tag, and the title stripping leaves it unchanged.
C26_StrippingComplete ==
    pc = "extracted" =>
        /\ ~BeginsWithMarker(titleBody.title)
        /\ Restripped(titleBody.title) = titleBody.title

\* A second layer of markers: behind the '#' run of the line stands another
\* '#', or behind its tag stands a '#' or another tag.
SecondLayer(line) ==
    LET headless == TrimStart(AfterHashRun(Trim(line)))
    IN \/ headless # << >> /\ headless[1] = "#"
       \/ headless # AfterTag(headless) /\ BeginsWithMarker(TrimStart(AfterTag(headless)))

\* C26 as amended: the stripping is one pass, the '#' run first and one tag
\* after it.  Unless the first non-empty line has a second layer of markers
\* behind the first, the title begins neither with a '#' nor with a tag and
\* the stripping leaves it unchanged; with a second layer the title is what
\* stands behind the first, and begins with a marker.
C26_OnePassStripping ==
    pc = "extracted" =>
        /\ (FilledLines(Split(prMessage)) = {} \/ ~SecondLayer(TitleLine)) =>
              /\ ~BeginsWithMarker(titleBody.title)
              /\ Restripped(titleBody.title) = titleBody.title
        /\ (FilledLines(Split(prMessage)) # {} /\ SecondLayer(TitleLine)) =>
              /\ BeginsWithMarker(titleBody.title)
              /\ titleBody.title = StrippedTitle(Split(prMessage))

\* C26 witness: a first line with an upper-case tag has given a title
\* without it.
C26_Witness ==
    /\ pc = "extracted"
    /\ FilledLines(Split(prMessage)) # {}
    /\ TitleLine = <<"F", "I", "X", ":", "y">>
    /\ titleBody.title = <<"y">>
    /\ Restripped(titleBody.title) = titleBody.title

\* The generation request of the run has been answered with a response
\* field that is not empty, and OutputProcessor.processResponse has run.
Answered ==
    /\ pc \in {"done", "asking", "failed"}
    /\ \E g \in Generated : g.result.ok

\* C27: run never returns, displays, saves or emits a PR message that is
\* empty or made of whitespace only; when the post-processed text of the
\* backend has no character that is not whitespace, run fails.
C27_NeverBlankMessage ==
    /\ Succeeded => ~Blank(runResult.text)
    /\ \A k \in 1..Len(written) : ~Blank(written[k].content)
    /\ \A k \in 1..Len(output) : ~Blank(output[k])
    /\ (Answered /\ Blank(processed)) => RunFailed

\* The user has answered yes to the question of run.
AnsweredYes == \E k \in 1..Len(answers) : answers[k] # << >> /\ answers[k][1] \in {"y", "Y"}

\* C28: in CI mode run writes no file, whatever save and interactive are; a
\* run not in CI mode that returns has written the message to one file if
\* save is true or interactive is true and the user has answered yes, and no
\* file otherwise; the user is asked at most once, and never when save is
\* true, interactive is false or the mode is CI; a run that fails writes
\* nothing.
C28_SaveAndPrompt ==
    /\ runOpts.ci => written = << >> /\ asked = 0
    /\ (runOpts.save \/ ~runOpts.interactive) => asked = 0
    /\ asked <= 1 /\ Len(answers) <= asked
    /\ (Succeeded /\ ~runOpts.ci) =>
          /\ Len(answers) = asked
          /\ IF runOpts.save \/ (runOpts.interactive /\ AnsweredYes)
             THEN written = <<saved(runResult.text)>>
             ELSE written = << >>
    /\ RunFailed => written = << >>

\* A run that saved because the user said yes, though save was off.
C28_Witness ==
    /\ Succeeded /\ ~runOpts.ci /\ ~runOpts.save /\ runOpts.interactive
    /\ answers = << <<"Y", "e", "s">> >>
    /\ Len(written) = 1

\* The template resolved for the run: TemplateLoader.loadTemplate with the
\* templatePath option of the run.
ResolvedTemplate ==
    loadTemplate([templatePath |-> runOpts.templatePath, customTemplate |-> NotGivenText])

\* C29: every payload run sends to the generation backend holds the template
\* resolved for the run, verbatim, between the heading "TEMPLATE STRUCTURE
\* TO FOLLOW" and the branch information, whatever the resolution yields:
\* an explicit file (an empty one included), a discovered file or the
\* built-in default.
C29_TemplateEmbedded ==
    request.sent =>
        /\ ResolvedTemplate.ok
        /\ Section(request.prompt, TemplateHeading, BranchHeading, ResolvedTemplate.text)

\* The line is among the log lines of the run.
Logged(line) == \E k \in 1..Len(logs) : logs[k] = line

\* Which template the run uses: the file of the explicit path, a template
\* file discovered in the repository, or the built-in default.
ExplicitUsed == TruthyPath(runOpts.templatePath)
DiscoveredUsed ==
    /\ ~ExplicitUsed
    /\ ~findGitHubTemplate.isNull
    /\ ResolvedTemplate.text = findGitHubTemplate.text
DefaultUsed == ~ExplicitUsed /\ ~DiscoveredUsed

\* C30: in a run not in CI mode that has resolved its template, the log line
\* on the template names the template used: "Using custom template" is
\* logged exactly when an explicit path was given, "Using GitHub PR
\* template" exactly when a discovered repository template is used, "Using
\* default template" exactly when the built-in default is used.
C30_TemplateLogMatches ==
    (request.sent /\ ~runOpts.ci) =>
        /\ Logged(<<"[INFO]", "Using custom template: ", runOpts.templatePath.name>>)
              <=> ExplicitUsed
        /\ Logged(<<"[INFO]", "Using GitHub PR template">>) <=> DiscoveredUsed
        /\ Logged(<<"[INFO]", "Using default template">>) <=> DefaultUsed

================================================================================
